---- MODULE Spec2Model ----
(***************************************************************************)
(* Appointment scheduling core of the OdontoLab backend:                   *)
(*   app/application/services/appointment_service.py  (AppointmentService) *)
(*   app/insfraestructure/repositories/appointment_repository.py           *)
(*   app/domain/models/appointment.py                                      *)
(*                                                                         *)
(* Time is counted in minutes from Monday 00:00 of a reference week, in    *)
(* the timestamp's own zone (datetime.weekday() is 0 on Monday).  A text   *)
(* is a sequence of one-character strings; an Optional[str] is a record    *)
(* [some, val] so that None and "" stay distinct values.                   *)
(***************************************************************************)
EXTENDS Integers, Sequences, FiniteSets, TLC

VARIABLES
    appts,      \* the appointments table: a sequence, the row's id is its index
    reminders,  \* the appointment_reminders table: a set of rows
    now,        \* the wall clock (datetime.now)
    last,       \* the use case that returned last
    req,        \* the requests in flight, each between two awaits of its handler
    probe       \* the last evaluation of a pure function: its argument and result

vars == <<appts, reminders, now, last, req, probe>>

----------------------------------------------------------------------------
(* Bounds of the model *)

MaxAppts == 2

----------------------------------------------------------------------------
(* Enumerations *)

SCHEDULED   == "scheduled"
CONFIRMED   == "confirmed"
IN_PROGRESS == "in_progress"
COMPLETED   == "completed"
CANCELLED   == "cancelled"
NO_SHOW     == "no_show"

AppointmentStatus ==
    {SCHEDULED, CONFIRMED, IN_PROGRESS, COMPLETED, CANCELLED, NO_SHOW}

ADMIN        == "admin"
DENTIST      == "dentist"
RECEPTIONIST == "receptionist"

EMAIL == "email"
SMS   == "sms"

----------------------------------------------------------------------------
(* Texts *)

None == [some |-> FALSE, val |-> <<>>]

Some(s) == [some |-> TRUE, val |-> s]

\* Python truthiness of an Optional[str]: None and "" are falsy
Truthy(o) == o.some /\ o.val # <<>>

\* `x or ""`
OrEmpty(o) == IF Truthy(o) THEN o.val ELSE <<>>

Whitespace == {" ", "\n"}

RECURSIVE LStrip(_)
LStrip(s) ==
    IF s # <<>> /\ Head(s) \in Whitespace THEN LStrip(Tail(s)) ELSE s

RECURSIVE RStrip(_)
RStrip(s) ==
    IF s # <<>> /\ s[Len(s)] \in Whitespace
    THEN RStrip(SubSeq(s, 1, Len(s) - 1))
    ELSE s

\* str.strip()
Strip(s) == RStrip(LStrip(s))

CancellationMarker ==
    <<"[", "C", "A", "N", "C", "E", "L", "L", "A", "T", "I", "O", "N", "]">>

----------------------------------------------------------------------------
(* Time *)

MinutesPerHour == 6 * 10

MinutesPerDay == 24 * MinutesPerHour

At(day, h, m) == day * MinutesPerDay + h * MinutesPerHour + m

\* datetime.weekday(): Monday is 0, Sunday is 6
Weekday(t) == (t \div MinutesPerDay) % 7

\* datetime.hour
Hour(t) == (t % MinutesPerDay) \div MinutesPerHour

IsWithinBusinessHours_ClosingHour(t) ==
    IF Weekday(t) = 6 THEN FALSE
    ELSE IF Weekday(t) = 5 THEN 8 <= Hour(t) /\ Hour(t) <= 13
    ELSE 8 <= Hour(t) /\ Hour(t) <= 18

(* AppointmentService._is_within_business_hours *)
IsWithinBusinessHours(t) ==
    IF Weekday(t) = 6 THEN FALSE
    ELSE IF Weekday(t) = 5 THEN 8 <= Hour(t) /\ Hour(t) < 13
    ELSE 8 <= Hour(t) /\ Hour(t) < 18

----------------------------------------------------------------------------
(* Collaborators: the users and patients tables, fixed during a run *)

Users == {"admin1", "recep1", "dent1", "dent2"}

Role(u) ==
    CASE u = "admin1" -> ADMIN
      [] u = "recep1" -> RECEPTIONIST
      [] OTHER        -> DENTIST

Patients == {"pat1"}

----------------------------------------------------------------------------
(* Appointment (app/domain/models/appointment.py) *)

\* Appointment.end_time
EndTime(a) == a.scheduled_time + a.duration_minutes

TerminalStatuses == {COMPLETED, CANCELLED, NO_SHOW}

CanBeCancelled_Unstarted(a) == a.status \in {SCHEDULED, CONFIRMED}

\* Appointment.can_be_cancelled
CanBeCancelled(a) == a.status \notin TerminalStatuses

----------------------------------------------------------------------------
(* Conflict detection (AppointmentRepository._check_conflicts) *)

ActiveStatuses_NoFilter == AppointmentStatus

\* the statuses the conflict query selects
ActiveStatuses == {SCHEDULED, CONFIRMED, IN_PROGRESS}

\* a query whose first case also takes an appointment ending at the start
QueryOverlap_ClosedEnd(a, start, end) ==
    \/ a.scheduled_time <= start /\ a.scheduled_time + a.duration_minutes >= start
    \/ a.scheduled_time < end /\ a.scheduled_time + a.duration_minutes >= end
    \/ a.scheduled_time >= start /\ a.scheduled_time + a.duration_minutes <= end

\* the three-case OR of the query, for a candidate [start, end)
QueryOverlap(a, start, end) ==
    \/ a.scheduled_time <= start /\ EndTime(a) > start
    \/ a.scheduled_time < end /\ EndTime(a) >= end
    \/ a.scheduled_time >= start /\ EndTime(a) <= end

\* a query without the dentist condition
Conflicts_AnyDentist(tbl, dentist_id, scheduled_time, duration_minutes, exclude) ==
    {i \in 1..Len(tbl) :
        /\ tbl[i].status \in {SCHEDULED, CONFIRMED, IN_PROGRESS}
        /\ \/ tbl[i].scheduled_time <= scheduled_time
              /\ tbl[i].scheduled_time + tbl[i].duration_minutes > scheduled_time
           \/ tbl[i].scheduled_time < scheduled_time + duration_minutes
              /\ tbl[i].scheduled_time + tbl[i].duration_minutes
                     >= scheduled_time + duration_minutes
           \/ tbl[i].scheduled_time >= scheduled_time
              /\ tbl[i].scheduled_time + tbl[i].duration_minutes
                     <= scheduled_time + duration_minutes
        /\ (exclude # 0 => i # exclude)}

Conflicts_NoExclude(tbl, dentist_id, scheduled_time, duration_minutes, exclude) ==
    {i \in 1..Len(tbl) :
        /\ tbl[i].dentist_id = dentist_id
        /\ tbl[i].status \in {SCHEDULED, CONFIRMED, IN_PROGRESS}
        /\ \/ tbl[i].scheduled_time <= scheduled_time
              /\ tbl[i].scheduled_time + tbl[i].duration_minutes > scheduled_time
           \/ tbl[i].scheduled_time < scheduled_time + duration_minutes
              /\ tbl[i].scheduled_time + tbl[i].duration_minutes
                     >= scheduled_time + duration_minutes
           \/ tbl[i].scheduled_time >= scheduled_time
              /\ tbl[i].scheduled_time + tbl[i].duration_minutes
                     <= scheduled_time + duration_minutes}

\* the rows the query returns in table `tbl`; exclude = 0 stands for None
Conflicts(tbl, dentist_id, scheduled_time, duration_minutes, exclude) ==
    {i \in 1..Len(tbl) :
        /\ tbl[i].dentist_id = dentist_id
        /\ tbl[i].status \in ActiveStatuses
        /\ QueryOverlap(tbl[i], scheduled_time, scheduled_time + duration_minutes)
        /\ (exclude # 0 => i # exclude)}

----------------------------------------------------------------------------
(* Availability (AppointmentRepository.check_availability) *)

\* datetime.combine(check_date, time): check_date is the day of the week,
\* time is <<hour, minute>>
Combine(check_date, time) == At(check_date, time[1], time[2])

\* the rows the query fetches: those of the dentist that start inside the
\* window and have one of the three statuses
ExistingAppointments(tbl, dentist_id, start_datetime, end_datetime) ==
    {i \in 1..Len(tbl) :
        /\ tbl[i].dentist_id = dentist_id
        /\ tbl[i].scheduled_time >= start_datetime
        /\ tbl[i].scheduled_time < end_datetime
        /\ tbl[i].status \in {SCHEDULED, CONFIRMED, IN_PROGRESS}}

\* the for loop over existing_appointments
IsAvailable(tbl, existing, current_time, slot_end) ==
    \A i \in existing :
        slot_end <= tbl[i].scheduled_time \/ current_time >= EndTime(tbl[i])

\* the while loop, from current_time on
RECURSIVE GenerateSlots_DropLast(_, _, _, _, _)
GenerateSlots_DropLast(tbl, existing, current_time, end_datetime, slot_duration) ==
    IF ~(current_time < end_datetime) THEN <<>>
    ELSE IF current_time + slot_duration >= end_datetime THEN <<>>
    ELSE <<[start_time |-> current_time,
            end_time |-> current_time + slot_duration,
            available |-> IsAvailable(tbl, existing, current_time,
                                      current_time + slot_duration)]>>
         \o GenerateSlots_DropLast(tbl, existing, current_time + slot_duration,
                                   end_datetime, slot_duration)

\* a loop that does not stop at a slot reaching past the end of the window
RECURSIVE GenerateSlots_PartialSlot(_, _, _, _, _)
GenerateSlots_PartialSlot(tbl, existing, current_time, end_datetime, slot_duration) ==
    IF ~(current_time < end_datetime) THEN <<>>
    ELSE <<[start_time |-> current_time,
            end_time |-> current_time + slot_duration,
            available |-> IsAvailable(tbl, existing, current_time,
                                      current_time + slot_duration)]>>
         \o GenerateSlots_PartialSlot(tbl, existing, current_time + slot_duration,
                                      end_datetime, slot_duration)

RECURSIVE GenerateSlots(_, _, _, _, _)
GenerateSlots(tbl, existing, current_time, end_datetime, slot_duration) ==
    IF ~(current_time < end_datetime) THEN <<>>
    ELSE IF current_time + slot_duration > end_datetime THEN <<>>
    ELSE <<[start_time |-> current_time,
            end_time |-> current_time + slot_duration,
            available |-> IsAvailable(tbl, existing, current_time,
                                      current_time + slot_duration)]>>
         \o GenerateSlots(tbl, existing, current_time + slot_duration,
                          end_datetime, slot_duration)

CheckAvailability(tbl, dentist_id, check_date, start_time, end_time, slot_duration) ==
    GenerateSlots(tbl,
                  ExistingAppointments(tbl, dentist_id, Combine(check_date, start_time),
                                       Combine(check_date, end_time)),
                  Combine(check_date, start_time), Combine(check_date, end_time),
                  slot_duration)

----------------------------------------------------------------------------
(* Lifecycle (AppointmentService._validate_status_transition) *)

ValidTransitions_CancelInProgress(current) ==
    CASE current = SCHEDULED   -> {CONFIRMED, CANCELLED, NO_SHOW}
      [] current = CONFIRMED   -> {IN_PROGRESS, CANCELLED, NO_SHOW}
      [] current = IN_PROGRESS -> {COMPLETED, CANCELLED}
      [] OTHER                 -> {}

\* a table in which a confirmation can be taken back
ValidTransitions_Unconfirm(current) ==
    CASE current = SCHEDULED   -> {CONFIRMED, CANCELLED, NO_SHOW}
      [] current = CONFIRMED   -> {SCHEDULED, IN_PROGRESS, CANCELLED, NO_SHOW}
      [] current = IN_PROGRESS -> {COMPLETED}
      [] OTHER                 -> {}

ValidTransitions(current) ==
    CASE current = SCHEDULED   -> {CONFIRMED, CANCELLED, NO_SHOW}
      [] current = CONFIRMED   -> {IN_PROGRESS, CANCELLED, NO_SHOW}
      [] current = IN_PROGRESS -> {COMPLETED}
      [] OTHER                 -> {}

\* TRUE when the validation passes, FALSE when it raises ValidationError
ValidateStatusTransition(a, new_status) ==
    new_status \in ValidTransitions(a.status)

\* AppointmentService._check_appointment_access
CheckAppointmentAccess(a, user) ==
    \/ Role(user) = ADMIN
    \/ Role(user) = RECEPTIONIST
    \/ Role(user) = DENTIST /\ a.dentist_id = user

\* a modification check that lets every dentist through
CheckModificationAccess_AnyDentist(a, user) ==
    \/ Role(user) = ADMIN
    \/ Role(user) = RECEPTIONIST
    \/ Role(user) = DENTIST

\* AppointmentService._check_appointment_modification_access
CheckModificationAccess(a, user) ==
    \/ Role(user) = ADMIN
    \/ Role(user) = RECEPTIONIST
    \/ Role(user) = DENTIST /\ a.dentist_id = user

----------------------------------------------------------------------------
(* Reminders (AppointmentService._create_automatic_reminders) *)

\* a nullable DateTime column
NoTime == [some |-> FALSE, val |-> 0]

SomeTime(t) == [some |-> TRUE, val |-> t]

\* AppointmentReminder(...) as inserted: sent defaults to False, created_at
\* to the time of the insert
NewReminder(id, reminder_type, scheduled_for, clock) ==
    [appointment_id |-> id, reminder_type |-> reminder_type,
     scheduled_for |-> scheduled_for, sent |-> FALSE, sent_at |-> NoTime,
     created_at |-> clock]

AutomaticReminders_NotBefore(id, scheduled_time, clock) ==
    {NewReminder(id, EMAIL, scheduled_time - 24 * MinutesPerHour, clock) :
        x \in {y \in {0} : scheduled_time - 24 * MinutesPerHour >= clock}}
    \cup
    {NewReminder(id, SMS, scheduled_time - 2 * MinutesPerHour, clock) :
        x \in {y \in {0} : scheduled_time - 2 * MinutesPerHour >= clock}}

AutomaticReminders(id, scheduled_time, clock) ==
    {NewReminder(id, EMAIL, scheduled_time - 24 * MinutesPerHour, clock) :
        x \in {y \in {0} : scheduled_time - 24 * MinutesPerHour > clock}}
    \cup
    {NewReminder(id, SMS, scheduled_time - 2 * MinutesPerHour, clock) :
        x \in {y \in {0} : scheduled_time - 2 * MinutesPerHour > clock}}

IsDue_IgnoreSent(r, clock) == r.scheduled_for <= clock

\* AppointmentReminder.is_due
IsDue(r, clock) == IF r.sent THEN FALSE ELSE r.scheduled_for <= clock

\* AppointmentReminder.mark_as_sent
MarkAsSent(r, clock) == [r EXCEPT !.sent = TRUE, !.sent_at = SomeTime(clock)]

----------------------------------------------------------------------------
(* Outcomes: what a call returns ("ok") or the exception it raises *)

Ok == [res |-> "ok", msg |-> ""]

Err(kind, msg) == [res |-> kind, msg |-> msg]

----------------------------------------------------------------------------
(* Requests.  An AppointmentUpdate carries the fields the client set       *)
(* (model_dump(exclude_unset=True)); the others hold a filler value.       *)

Unset == [fields |-> {}, scheduled_time |-> 0, duration_minutes |-> 0,
          status |-> "", notes |-> None]

\* what AppointmentBase / AppointmentUpdate accept for a duration
ValidDuration(d) == 5 <= d /\ d <= 480 /\ d % 5 = 0

\* update_data.get(key, fallback) on the dumped request
NewScheduledTime(a, upd) ==
    IF "scheduled_time" \in upd.fields THEN upd.scheduled_time ELSE a.scheduled_time

NewDuration(a, upd) ==
    IF "duration_minutes" \in upd.fields THEN upd.duration_minutes ELSE a.duration_minutes

\* the setattr loop of AppointmentRepository.update
Merge(a, upd) ==
    [a EXCEPT
        !.scheduled_time   = NewScheduledTime(a, upd),
        !.duration_minutes = NewDuration(a, upd),
        !.status = IF "status" \in upd.fields THEN upd.status ELSE a.status,
        !.notes  = IF "notes" \in upd.fields THEN upd.notes ELSE a.notes]

\* a repository update that checks conflicts only when the start time changes
RepositoryUpdate_StartOnly(tbl, id, upd) ==
    IF id \notin 1..Len(tbl)
    THEN [out |-> Err("AppointmentNotFoundError", "not found"), tbl |-> tbl]
    ELSE IF /\ "scheduled_time" \in upd.fields
            /\ Conflicts(tbl, tbl[id].dentist_id, NewScheduledTime(tbl[id], upd),
                         NewDuration(tbl[id], upd), id) # {}
    THEN [out |-> Err("AppointmentConflictError", "conflict"), tbl |-> tbl]
    ELSE [out |-> Ok, tbl |-> [tbl EXCEPT ![id] = Merge(tbl[id], upd)]]

\* a repository update that deletes the row it is asked to cancel
RepositoryUpdate_DeleteCancelled(tbl, id, upd) ==
    IF id \notin 1..Len(tbl)
    THEN [out |-> Err("AppointmentNotFoundError", "not found"), tbl |-> tbl]
    ELSE IF /\ ("scheduled_time" \in upd.fields \/ "duration_minutes" \in upd.fields)
            /\ Conflicts(tbl, tbl[id].dentist_id, NewScheduledTime(tbl[id], upd),
                         NewDuration(tbl[id], upd), id) # {}
    THEN [out |-> Err("AppointmentConflictError", "conflict"), tbl |-> tbl]
    ELSE IF "status" \in upd.fields /\ upd.status = CANCELLED
    THEN [out |-> Ok, tbl |-> SubSeq(tbl, 1, id - 1) \o SubSeq(tbl, id + 1, Len(tbl))]
    ELSE [out |-> Ok, tbl |-> [tbl EXCEPT ![id] = Merge(tbl[id], upd)]]

\* a repository update that looks for conflicts whatever the request holds
RepositoryUpdate_AlwaysChecks(tbl, id, upd) ==
    IF id \notin 1..Len(tbl)
    THEN [out |-> Err("AppointmentNotFoundError", "not found"), tbl |-> tbl]
    ELSE IF Conflicts(tbl, tbl[id].dentist_id, NewScheduledTime(tbl[id], upd),
                      NewDuration(tbl[id], upd), id) # {}
    THEN [out |-> Err("AppointmentConflictError", "conflict"), tbl |-> tbl]
    ELSE [out |-> Ok, tbl |-> [tbl EXCEPT ![id] = Merge(tbl[id], upd)]]

\* a repository update that merges the fields before it looks for conflicts
RepositoryUpdate_MergeFirst(tbl, id, upd) ==
    IF id \notin 1..Len(tbl)
    THEN [out |-> Err("AppointmentNotFoundError", "not found"), tbl |-> tbl]
    ELSE IF /\ ("scheduled_time" \in upd.fields \/ "duration_minutes" \in upd.fields)
            /\ Conflicts(tbl, tbl[id].dentist_id, NewScheduledTime(tbl[id], upd),
                         NewDuration(tbl[id], upd), id) # {}
    THEN [out |-> Err("AppointmentConflictError", "conflict"),
          tbl |-> [tbl EXCEPT ![id] = Merge(tbl[id], upd)]]
    ELSE [out |-> Ok, tbl |-> [tbl EXCEPT ![id] = Merge(tbl[id], upd)]]

(* AppointmentRepository.update: the conflict check, then the merge.       *)
(* Yields the outcome and the table after the call.                        *)
RepositoryUpdate(tbl, id, upd) ==
    IF id \notin 1..Len(tbl)
    THEN [out |-> Err("AppointmentNotFoundError", "not found"), tbl |-> tbl]
    ELSE IF /\ ("scheduled_time" \in upd.fields \/ "duration_minutes" \in upd.fields)
            /\ Conflicts(tbl, tbl[id].dentist_id, NewScheduledTime(tbl[id], upd),
                         NewDuration(tbl[id], upd), id) # {}
    THEN [out |-> Err("AppointmentConflictError", "conflict"), tbl |-> tbl]
    ELSE [out |-> Ok, tbl |-> [tbl EXCEPT ![id] = Merge(tbl[id], upd)]]

(* AppointmentRepository.create: the conflict check, then the insert *)
RepositoryCreate(tbl, row) ==
    IF Conflicts(tbl, row.dentist_id, row.scheduled_time, row.duration_minutes, 0) # {}
    THEN [out |-> Err("AppointmentConflictError", "conflict"), tbl |-> tbl]
    ELSE [out |-> Ok, tbl |-> Append(tbl, row)]

----------------------------------------------------------------------------
(* Use cases of AppointmentService, each as the table and the outcome      *)
(* after the whole call                                                    *)

NewRow_CreatedByDentist(caller, patient_id, dentist_id, scheduled_time, duration_minutes, notes) ==
    [patient_id |-> patient_id, dentist_id |-> dentist_id,
     scheduled_time |-> scheduled_time, duration_minutes |-> duration_minutes,
     status |-> SCHEDULED, notes |-> notes, created_by |-> dentist_id]

NewRow(caller, patient_id, dentist_id, scheduled_time, duration_minutes, notes) ==
    [patient_id |-> patient_id, dentist_id |-> dentist_id,
     scheduled_time |-> scheduled_time, duration_minutes |-> duration_minutes,
     status |-> SCHEDULED, notes |-> notes, created_by |-> caller]

(* AppointmentService.create_appointment, up to the repository call *)
CreateValidation(patient_id, dentist_id, scheduled_time) ==
    IF patient_id \notin Patients
    THEN Err("PatientNotFoundError", "patient not found")
    ELSE IF dentist_id \notin Users
    THEN Err("UserNotFoundError", "dentist not found")
    ELSE IF Role(dentist_id) # DENTIST /\ Role(dentist_id) # ADMIN
    THEN Err("ValidationError", "not a dentist")
    ELSE IF ~IsWithinBusinessHours(scheduled_time)
    THEN Err("ValidationError", "business hours")
    ELSE Ok

UpdateValidation_NoTransitionCheck(a, upd, caller) ==
    IF ~CheckModificationAccess(a, caller)
    THEN Err("AuthorizationError", "modify")
    ELSE IF "scheduled_time" \in upd.fields /\ ~IsWithinBusinessHours(upd.scheduled_time)
    THEN Err("ValidationError", "business hours")
    ELSE Ok

(* AppointmentService.update_appointment, up to the repository call *)
UpdateValidation(a, upd, caller) ==
    IF ~CheckModificationAccess(a, caller)
    THEN Err("AuthorizationError", "modify")
    ELSE IF /\ "status" \in upd.fields
            /\ upd.status # a.status
            /\ ~ValidateStatusTransition(a, upd.status)
    THEN Err("ValidationError", "transition")
    ELSE IF "scheduled_time" \in upd.fields /\ ~IsWithinBusinessHours(upd.scheduled_time)
    THEN Err("ValidationError", "business hours")
    ELSE Ok

(* AppointmentService.update_appointment_status, up to the repository call *)
StatusValidation(a, new_status, caller) ==
    IF ~CheckModificationAccess(a, caller)
    THEN Err("AuthorizationError", "modify")
    ELSE IF ~ValidateStatusTransition(a, new_status)
    THEN Err("ValidationError", "transition")
    ELSE Ok

\* an update_dict that carries the notes whether or not any were given
StatusUpdateDict_AlwaysNotes(new_status, notes) ==
    [Unset EXCEPT !.fields = {"status", "notes"}, !.status = new_status, !.notes = notes]

\* the update_dict of update_appointment_status
StatusUpdateDict(new_status, notes) ==
    IF Truthy(notes)
    THEN [Unset EXCEPT !.fields = {"status", "notes"}, !.status = new_status,
                       !.notes = notes]
    ELSE [Unset EXCEPT !.fields = {"status"}, !.status = new_status]

(* AppointmentService.cancel_appointment, up to the repository call *)
CancelValidation(a, caller) ==
    IF ~CheckModificationAccess(a, caller)
    THEN Err("AuthorizationError", "modify")
    ELSE IF ~CanBeCancelled(a)
    THEN Err("ValidationError", "cannot cancel")
    ELSE Ok

\* f"{current_notes}\n[CANCELLATION] {reason}".strip()
CancellationNotes_Replace(a, reason) ==
    Strip(CancellationMarker \o <<" ">> \o reason.val)

CancellationNotes(a, reason) ==
    Strip(OrEmpty(a.notes) \o <<"\n">> \o CancellationMarker \o <<" ">> \o reason.val)

\* the update_dict of cancel_appointment
CancelUpdateDict(a, reason) ==
    IF Truthy(reason)
    THEN [Unset EXCEPT !.fields = {"status", "notes"}, !.status = CANCELLED,
                       !.notes = Some(CancellationNotes(a, reason))]
    ELSE [Unset EXCEPT !.fields = {"status"}, !.status = CANCELLED]

----------------------------------------------------------------------------
(* The four modifying use cases as whole calls: the outcome returned to    *)
(* the caller (out), the appointments table (tbl) and the reminders (rem)  *)
(* after the call                                                          *)

\* get_by_id_or_raise, the validation `v` of the use case, repository.update
ModifyCall(tbl, id, v, upd) ==
    IF v.res # "ok"
    THEN [out |-> v, tbl |-> tbl]
    ELSE RepositoryUpdate(tbl, id, upd)

NotFoundCall(tbl) ==
    [out |-> Err("AppointmentNotFoundError", "not found"), tbl |-> tbl]

(* AppointmentService.create_appointment *)
CreateCall(tbl, rems, clock, caller, patient_id, dentist_id, scheduled_time, duration_minutes, notes) ==
    LET v == CreateValidation(patient_id, dentist_id, scheduled_time)
        r == RepositoryCreate(tbl, NewRow(caller, patient_id, dentist_id,
                                          scheduled_time, duration_minutes, notes))
    IN  IF v.res # "ok"
        THEN [out |-> v, tbl |-> tbl, rem |-> rems]
        ELSE IF r.out.res # "ok"
        THEN [out |-> r.out, tbl |-> tbl, rem |-> rems]
        ELSE [out |-> Ok, tbl |-> r.tbl,
              rem |-> rems \cup AutomaticReminders(Len(r.tbl), scheduled_time, clock)]

(* AppointmentService.get_appointment *)
GetCall(tbl, caller, id) ==
    IF id \notin 1..Len(tbl)
    THEN NotFoundCall(tbl)
    ELSE IF ~CheckAppointmentAccess(tbl[id], caller)
    THEN [out |-> Err("AuthorizationError", "access"), tbl |-> tbl]
    ELSE [out |-> Ok, tbl |-> tbl]

(* AppointmentService.update_appointment *)
UpdateCall(tbl, caller, id, upd) ==
    IF id \notin 1..Len(tbl)
    THEN NotFoundCall(tbl)
    ELSE ModifyCall(tbl, id, UpdateValidation(tbl[id], upd, caller), upd)

(* AppointmentService.update_appointment_status *)
StatusCall(tbl, caller, id, new_status, notes) ==
    IF id \notin 1..Len(tbl)
    THEN NotFoundCall(tbl)
    ELSE ModifyCall(tbl, id, StatusValidation(tbl[id], new_status, caller),
                    StatusUpdateDict(new_status, notes))

(* AppointmentService.cancel_appointment *)
CancelCall(tbl, caller, id, reason) ==
    IF id \notin 1..Len(tbl)
    THEN NotFoundCall(tbl)
    ELSE ModifyCall(tbl, id, CancelValidation(tbl[id], caller),
                    CancelUpdateDict(tbl[id], reason))

(* AppError.code of the exception classes (app/application/exceptions.py) *)
ErrorCode(res) ==
    CASE res \in {"AppointmentNotFoundError", "PatientNotFoundError", "UserNotFoundError"}
              -> "not_found"
      [] res = "AppointmentConflictError" -> "conflict"
      [] res = "ValidationError"          -> "validation_error"
      [] res = "AuthorizationError"       -> "authorization_error"
      [] OTHER                            -> "ok"

\* the except branch of AppointmentRepository.create and .update: the
\* session is rolled back, so the tables are those before the call
IntegrityFailure(tbl, rems) ==
    [out |-> Err("ValidationError", "Database integrity error"), tbl |-> tbl, rem |-> rems]

(* create_appointment where session.commit() may raise IntegrityError *)
CreateCommit(tbl, rems, clock, caller, patient_id, dentist_id, scheduled_time, duration_minutes, notes, integrity_error) ==
    LET k == CreateCall(tbl, rems, clock, caller, patient_id, dentist_id,
                        scheduled_time, duration_minutes, notes)
    IN  IF k.out = Ok /\ integrity_error THEN IntegrityFailure(tbl, rems) ELSE k

(* update_appointment where session.commit() may raise IntegrityError *)
UpdateCommit(tbl, rems, caller, id, upd, integrity_error) ==
    LET k == UpdateCall(tbl, caller, id, upd)
    IN  IF k.out = Ok /\ integrity_error
        THEN IntegrityFailure(tbl, rems)
        ELSE [out |-> k.out, tbl |-> k.tbl, rem |-> rems]

----------------------------------------------------------------------------
(* Listing (AppointmentService.list_appointments) *)

\* an optional date, as a day number; an optional id or status is Absent
NoDate == [some |-> FALSE, val |-> 0]

SomeDate(d) == [some |-> TRUE, val |-> d]

Absent == "none"

\* datetime.date(): the day a timestamp falls on
DateOf(t) == t \div MinutesPerDay

\* role filters that leave the dentist filter as requested
RoleFilters_AsRequested(clock, caller, patient_id, dentist_id, start_date, end_date) ==
    IF Role(caller) = RECEPTIONIST /\ dentist_id = Absent /\ patient_id = Absent
    THEN LET s == IF start_date.some THEN start_date ELSE SomeDate(DateOf(clock))
         IN  [dentist_id |-> dentist_id, start_date |-> s,
              end_date |-> IF end_date.some THEN end_date ELSE SomeDate(s.val + 30)]
    ELSE [dentist_id |-> dentist_id, start_date |-> start_date, end_date |-> end_date]

\* "Apply role-based filters": the filters handed to the repository
RoleFilters(clock, caller, patient_id, dentist_id, start_date, end_date) ==
    IF Role(caller) = DENTIST
    THEN [dentist_id |-> caller, start_date |-> start_date, end_date |-> end_date]
    ELSE IF Role(caller) = RECEPTIONIST /\ dentist_id = Absent /\ patient_id = Absent
    THEN LET s == IF start_date.some THEN start_date ELSE SomeDate(DateOf(clock))
         IN  [dentist_id |-> dentist_id, start_date |-> s,
              end_date |-> IF end_date.some THEN end_date ELSE SomeDate(s.val + 30)]
    ELSE [dentist_id |-> dentist_id, start_date |-> start_date, end_date |-> end_date]

\* AppointmentRepository.list_appointments: the rows the count query counts
RepositoryList(tbl, patient_id, dentist_id, status, start_date, end_date) ==
    {i \in 1..Len(tbl) :
        /\ patient_id # Absent => tbl[i].patient_id = patient_id
        /\ dentist_id # Absent => tbl[i].dentist_id = dentist_id
        /\ status # Absent => tbl[i].status = status
        /\ start_date.some => tbl[i].scheduled_time >= At(start_date.val, 0, 0)
        /\ end_date.some => tbl[i].scheduled_time < At(end_date.val + 1, 0, 0)}

(* AppointmentService.list_appointments, all pages together *)
ListCall(tbl, clock, caller, patient_id, dentist_id, status, start_date, end_date) ==
    LET f == RoleFilters(clock, caller, patient_id, dentist_id, start_date, end_date)
    IN  RepositoryList(tbl, patient_id, f.dentist_id, status, f.start_date, f.end_date)

----------------------------------------------------------------------------
(* Statistics (AppointmentService.get_appointment_stats) *)

NoStats ==
    [total_appointments |-> 0, by_status |-> <<>>, upcoming_count |-> 0,
     completion_rate |-> 0, no_show_rate |-> 0, total_patients |-> 0]

\* round(count / total_finished * 100, 2), in hundredths of a percent; the
\* quotient is never half-way between two hundredths for totals up to MaxAppts + 1
Rate(count, total_finished) ==
    IF total_finished > 0
    THEN (2 * count * 100 * 100 + total_finished) \div (2 * total_finished)
    ELSE 0

\* the counters after the loop over the first i rows of `tbl`, of which those
\* in `ids` were fetched
RECURSIVE StatsLoop(_, _, _, _)
StatsLoop(tbl, ids, i, clock) ==
    IF i = 0
    THEN [by_status |-> <<>>, unique_patients |-> {}, completed_count |-> 0,
          no_show_count |-> 0, upcoming_count |-> 0]
    ELSE LET acc == StatsLoop(tbl, ids, i - 1, clock)
             apt == tbl[i]
             seen == IF apt.status \in DOMAIN acc.by_status THEN acc.by_status[apt.status]
                     ELSE 0
         IN  IF i \notin ids THEN acc
             ELSE [by_status |-> [s \in DOMAIN acc.by_status \cup {apt.status} |->
                                    IF s = apt.status THEN seen + 1 ELSE acc.by_status[s]],
                   unique_patients |-> acc.unique_patients \cup {apt.patient_id},
                   completed_count |-> acc.completed_count
                                       + (IF apt.status = COMPLETED THEN 1 ELSE 0),
                   no_show_count |-> acc.no_show_count
                                     + (IF apt.status = NO_SHOW THEN 1 ELSE 0),
                   upcoming_count |-> acc.upcoming_count
                                      + (IF /\ apt.scheduled_time > clock
                                            /\ apt.status \notin {COMPLETED, CANCELLED, NO_SHOW}
                                         THEN 1 ELSE 0)]

\* the dictionary returned for the fetched rows `ids`
StatsOf(tbl, ids, clock) ==
    LET acc == StatsLoop(tbl, ids, Len(tbl), clock)
        total_finished == acc.completed_count + acc.no_show_count
    IN  [total_appointments |-> Cardinality(ids),
         by_status |-> acc.by_status,
         upcoming_count |-> acc.upcoming_count,
         completion_rate |-> Rate(acc.completed_count, total_finished),
         no_show_rate |-> Rate(acc.no_show_count, total_finished),
         total_patients |-> Cardinality(acc.unique_patients)]

\* statistics that a dentist is given over the appointments assigned to them
StatsCall_DentistScoped(tbl, clock, caller, start_date, end_date) ==
    [out |-> Ok,
     stats |-> StatsOf(tbl,
                       RepositoryList(tbl, Absent,
                                      IF Role(caller) = DENTIST THEN caller ELSE Absent,
                                      Absent, start_date, end_date),
                       clock)]

(* AppointmentService.get_appointment_stats *)
StatsCall(tbl, clock, caller, start_date, end_date) ==
    IF Role(caller) \notin {ADMIN, RECEPTIONIST}
    THEN [out |-> Err("AuthorizationError", "stats"), stats |-> NoStats]
    ELSE [out |-> Ok,
          stats |-> StatsOf(tbl,
                            RepositoryList(tbl, Absent, Absent, Absent, start_date, end_date),
                            clock)]

----------------------------------------------------------------------------
(* The service calls one at a time: each action is one whole call.  A call *)
(* that raises leaves the tables as they were; `last` names the use case   *)
(* that returned last.                                                     *)

Init ==
    /\ appts = <<>>
    /\ reminders = {}
    /\ now = At(0, 0, 0) - 2 * MinutesPerDay
    /\ last = "none"
    /\ req = <<>>
    /\ probe = [fn |-> "none", arg |-> <<0, 0, 0>>, ret |-> FALSE]

\* the request passed the schema: scheduled_time is in the future and the
\* duration is valid
CreateAppointment(caller, patient_id, dentist_id, scheduled_time, duration_minutes, notes) ==
    /\ Len(appts) < MaxAppts
    /\ scheduled_time > now
    /\ ValidDuration(duration_minutes)
    /\ LET c == CreateCall(appts, reminders, now, caller, patient_id, dentist_id,
                           scheduled_time, duration_minutes, notes)
       IN  /\ appts' = c.tbl
           /\ reminders' = c.rem
           /\ last' = IF c.out.res = "ok" THEN "create" ELSE last
    /\ UNCHANGED <<now, req, probe>>

UpdateAppointment(caller, id, upd) ==
    /\ "scheduled_time" \in upd.fields => upd.scheduled_time > now
    /\ "duration_minutes" \in upd.fields => ValidDuration(upd.duration_minutes)
    /\ LET c == UpdateCall(appts, caller, id, upd)
       IN  /\ appts' = c.tbl
           /\ last' = IF c.out.res = "ok" THEN "update" ELSE last
    /\ UNCHANGED <<reminders, now, req, probe>>

UpdateAppointmentStatus(caller, id, new_status, notes) ==
    /\ LET c == StatusCall(appts, caller, id, new_status, notes)
       IN  /\ appts' = c.tbl
           /\ last' = IF c.out.res = "ok" THEN "updateStatus" ELSE last
    /\ UNCHANGED <<reminders, now, req, probe>>

CancelAppointment(caller, id, reason) ==
    /\ LET c == CancelCall(appts, caller, id, reason)
       IN  /\ appts' = c.tbl
           /\ last' = IF c.out.res = "ok" THEN "cancel" ELSE last
    /\ UNCHANGED <<reminders, now, req, probe>>

(* AppointmentService.get_appointment: a read; `probe` holds the request   *)
(* and whether the appointment was returned                                *)
GetAppointment(caller, id) ==
    /\ LET c == GetCall(appts, caller, id)
       IN  /\ probe' = [fn |-> "get", arg |-> <<caller, id, 0>>, ret |-> c.out = Ok]
           /\ last' = IF c.out.res = "ok" THEN "get" ELSE last
    /\ UNCHANGED <<appts, reminders, now, req>>

(* create and update on a database whose commit may be refused: `probe`   *)
(* holds whether it was and the exception the caller received              *)
CreateAppointmentCommit(caller, patient_id, dentist_id, scheduled_time, duration_minutes, notes, integrity_error) ==
    /\ Len(appts) < MaxAppts
    /\ scheduled_time > now
    /\ ValidDuration(duration_minutes)
    /\ LET c == CreateCommit(appts, reminders, now, caller, patient_id, dentist_id,
                             scheduled_time, duration_minutes, notes, integrity_error)
       IN  /\ appts' = c.tbl
           /\ reminders' = c.rem
           /\ last' = IF c.out.res = "ok" THEN "create" ELSE last
           /\ probe' = [fn |-> "create", arg |-> <<integrity_error, 0, 0>>, ret |-> c.out]
    /\ UNCHANGED <<now, req>>

UpdateAppointmentCommit(caller, id, upd, integrity_error) ==
    /\ "scheduled_time" \in upd.fields => upd.scheduled_time > now
    /\ "duration_minutes" \in upd.fields => ValidDuration(upd.duration_minutes)
    /\ LET c == UpdateCommit(appts, reminders, caller, id, upd, integrity_error)
       IN  /\ appts' = c.tbl
           /\ last' = IF c.out.res = "ok" THEN "update" ELSE last
           /\ probe' = [fn |-> "update", arg |-> <<integrity_error, 0, 0>>, ret |-> c.out]
    /\ UNCHANGED <<reminders, now, req>>

(* AppointmentService.list_appointments: a read; `probe` holds the request *)
(* and the appointments listed                                             *)
ListAppointments(caller, patient_id, dentist_id, status, start_date, end_date) ==
    /\ probe' = [fn |-> "list",
                 arg |-> <<caller, patient_id, dentist_id, status, start_date, end_date>>,
                 ret |-> ListCall(appts, now, caller, patient_id, dentist_id, status,
                                  start_date, end_date)]
    /\ UNCHANGED <<appts, reminders, now, last, req>>

(* AppointmentService.get_appointment_stats: a read; `probe` holds the     *)
(* request and what the caller received                                    *)
GetAppointmentStats(caller, start_date, end_date) ==
    /\ probe' = [fn |-> "stats", arg |-> <<caller, start_date, end_date>>,
                 ret |-> StatsCall(appts, now, caller, start_date, end_date)]
    /\ UNCHANGED <<appts, reminders, now, last, req>>

(* AppointmentRepository._check_conflicts on its own: `probe` holds the    *)
(* candidate and the rows the query returned (the call raises iff there    *)
(* are any)                                                                *)
CheckConflicts(dentist_id, scheduled_time, duration_minutes) ==
    /\ probe' = [fn |-> "conflicts", arg |-> <<dentist_id, scheduled_time, duration_minutes>>,
                 ret |-> Conflicts(appts, dentist_id, scheduled_time, duration_minutes, 0)]
    /\ UNCHANGED <<appts, reminders, now, last, req>>

(* A single evaluation of _is_within_business_hours on the timestamp that  *)
(* `probe` holds as <<weekday, hour, minute>>                              *)
CheckBusinessHours ==
    /\ probe.fn = "arg"
    /\ probe' = [probe EXCEPT !.fn = "ret",
                              !.ret = IsWithinBusinessHours(
                                          At(probe.arg[1], probe.arg[2], probe.arg[3]))]
    /\ UNCHANGED <<appts, reminders, now, last, req>>

(* AppointmentService.check_availability: a read; `probe` holds the       *)
(* request and the slots returned                                          *)
CheckAvailabilityCall(dentist_id, check_date, start_time, end_time, slot_duration) ==
    /\ slot_duration > 0
    /\ probe' = [fn |-> "availability",
                 arg |-> <<dentist_id, check_date, start_time, end_time, slot_duration>>,
                 ret |-> CheckAvailability(appts, dentist_id, check_date, start_time,
                                           end_time, slot_duration)]
    /\ UNCHANGED <<appts, reminders, now, last, req>>

(* Time passes: the clock moves on to a later one of the instants `clocks` *)
Tick(clocks) ==
    /\ \E c \in clocks :
        /\ c > now
        /\ now' = c
    /\ UNCHANGED <<appts, reminders, last, req, probe>>

(* The dispatcher outside the service: it takes a reminder that is due,    *)
(* sends it and marks it as sent                                           *)
DispatchReminder ==
    /\ \E r \in reminders :
        /\ IsDue(r, now)
        /\ reminders' = (reminders \ {r}) \cup {MarkAsSent(r, now)}
    /\ UNCHANGED <<appts, now, last, req, probe>>

----------------------------------------------------------------------------
(* Concurrent requests.  Each worker serves one request on a session of    *)
(* its own; AppointmentRepository.create and .update await the conflict    *)
(* query and later the commit, and other workers run in between.  `req`    *)
(* holds, per worker, the request between its conflict query and its       *)
(* commit.                                                                 *)

Workers == {"w1", "w2"}

Idle == [pc |-> "idle", id |-> 0, row |-> NewRow("", "", "", 0, 0, None), upd |-> Unset]

Inserting == {w \in Workers : req[w].pc = "insert"}

\* create_appointment up to the end of _check_conflicts in repository.create
CreateCheck(w, caller, patient_id, dentist_id, scheduled_time, duration_minutes, notes) ==
    /\ req[w].pc = "idle"
    /\ Len(appts) + Cardinality(Inserting) < MaxAppts
    /\ scheduled_time > now
    /\ ValidDuration(duration_minutes)
    /\ LET c == CreateCall(appts, reminders, now, caller, patient_id, dentist_id,
                           scheduled_time, duration_minutes, notes)
       IN  req' = IF c.out.res = "ok"
                  THEN [req EXCEPT ![w] =
                           [Idle EXCEPT !.pc = "insert",
                                        !.row = NewRow(caller, patient_id, dentist_id,
                                                       scheduled_time, duration_minutes,
                                                       notes)]]
                  ELSE req
    /\ UNCHANGED <<appts, reminders, now, last, probe>>

\* session.add and commit of repository.create, then the reminders
CreateInsert(w) ==
    /\ req[w].pc = "insert"
    /\ appts' = Append(appts, req[w].row)
    /\ reminders' = reminders \cup AutomaticReminders(Len(appts) + 1,
                                                      req[w].row.scheduled_time, now)
    /\ last' = "create"
    /\ req' = [req EXCEPT ![w] = Idle]
    /\ UNCHANGED <<now, probe>>

\* update_appointment up to the end of _check_conflicts in repository.update;
\* the row as loaded stays in the session
UpdateCheck(w, caller, id, upd) ==
    /\ req[w].pc = "idle"
    /\ id \in 1..Len(appts)
    /\ "scheduled_time" \in upd.fields => upd.scheduled_time > now
    /\ "duration_minutes" \in upd.fields => ValidDuration(upd.duration_minutes)
    /\ req' = IF UpdateCall(appts, caller, id, upd).out.res = "ok"
              THEN [req EXCEPT ![w] = [Idle EXCEPT !.pc = "write", !.id = id,
                                                   !.row = appts[id], !.upd = upd]]
              ELSE req
    /\ UNCHANGED <<appts, reminders, now, last, probe>>

\* the UPDATE of the commit sets the columns whose value was changed on the
\* loaded row
WriteBack(cur, loaded, upd) ==
    [cur EXCEPT
        !.scheduled_time = IF "scheduled_time" \in upd.fields
                              /\ upd.scheduled_time # loaded.scheduled_time
                           THEN upd.scheduled_time ELSE @,
        !.duration_minutes = IF "duration_minutes" \in upd.fields
                                /\ upd.duration_minutes # loaded.duration_minutes
                             THEN upd.duration_minutes ELSE @,
        !.status = IF "status" \in upd.fields /\ upd.status # loaded.status
                   THEN upd.status ELSE @,
        !.notes = IF "notes" \in upd.fields /\ upd.notes # loaded.notes
                  THEN upd.notes ELSE @]

\* setattr and commit of repository.update
UpdateWrite(w) ==
    /\ req[w].pc = "write"
    /\ appts' = [appts EXCEPT ![req[w].id] = WriteBack(@, req[w].row, req[w].upd)]
    /\ last' = "update"
    /\ req' = [req EXCEPT ![w] = Idle]
    /\ UNCHANGED <<reminders, now, probe>>

\* update_appointment_status up to the repository's setattr loop: the row
\* as loaded and validated stays in the session
StatusCheck(w, caller, id, new_status, notes) ==
    /\ req[w].pc = "idle"
    /\ id \in 1..Len(appts)
    /\ req' = IF StatusCall(appts, caller, id, new_status, notes).out.res = "ok"
              THEN [req EXCEPT ![w] = [Idle EXCEPT !.pc = "status", !.id = id,
                                                   !.row = appts[id],
                                                   !.upd = StatusUpdateDict(new_status, notes)]]
              ELSE req
    /\ UNCHANGED <<appts, reminders, now, last, probe>>

\* setattr and commit of repository.update for update_appointment_status
StatusWrite(w) ==
    /\ req[w].pc = "status"
    /\ appts' = [appts EXCEPT ![req[w].id] = WriteBack(@, req[w].row, req[w].upd)]
    /\ last' = "updateStatus"
    /\ req' = [req EXCEPT ![w] = Idle]
    /\ UNCHANGED <<reminders, now, probe>>

\* cancel_appointment up to the repository's setattr loop
CancelCheck(w, caller, id, reason) ==
    /\ req[w].pc = "idle"
    /\ id \in 1..Len(appts)
    /\ req' = IF CancelCall(appts, caller, id, reason).out.res = "ok"
              THEN [req EXCEPT ![w] = [Idle EXCEPT !.pc = "cancel", !.id = id,
                                                   !.row = appts[id],
                                                   !.upd = CancelUpdateDict(appts[id], reason)]]
              ELSE req
    /\ UNCHANGED <<appts, reminders, now, last, probe>>

\* setattr and commit of repository.update for cancel_appointment
CancelWrite(w) ==
    /\ req[w].pc = "cancel"
    /\ appts' = [appts EXCEPT ![req[w].id] = WriteBack(@, req[w].row, req[w].upd)]
    /\ last' = "cancel"
    /\ req' = [req EXCEPT ![w] = Idle]
    /\ UNCHANGED <<reminders, now, probe>>

----------------------------------------------------------------------------
(* Inputs *)

\* the update requests over the given values: a time and/or a duration, a
\* status alone or with a time, notes alone
UpdatesOver(times, durs, statuses, moves, notes) ==
    {[Unset EXCEPT !.fields = {"scheduled_time"}, !.scheduled_time = t] : t \in times}
    \cup
    {[Unset EXCEPT !.fields = {"duration_minutes"}, !.duration_minutes = d] : d \in durs}
    \cup
    {[Unset EXCEPT !.fields = {"scheduled_time", "duration_minutes"},
                   !.scheduled_time = x[1], !.duration_minutes = x[2]] :
        x \in times \X durs}
    \cup
    {[Unset EXCEPT !.fields = {"status"}, !.status = s] : s \in statuses}
    \cup
    {[Unset EXCEPT !.fields = {"status", "scheduled_time"},
                   !.status = x[1], !.scheduled_time = x[2]] :
        x \in moves}
    \cup
    {[Unset EXCEPT !.fields = {"notes"}, !.notes = n] : n \in notes}

\* Monday 10:00 and 10:15 with 15 and 30 minutes: disjoint, adjacent, nested and
\* straddling intervals of one dentist
SchedEnv ==
    [creators |-> {"recep1"},
     callers  |-> {"recep1"},
     patients |-> {"pat1"},
     dentists |-> {"dent1"},
     times    |-> {At(0, 10, 0), At(0, 10, 15)},
     durs     |-> {15, 30},
     statuses |-> AppointmentStatus,
     moves    |-> {<<CONFIRMED, At(0, 10, 0)>>, <<SCHEDULED, At(0, 10, 15)>>},
     notes    |-> {None},
     renotes  |-> {},
     reasons  |-> {None}]

Calls(E) ==
    \/ \E c \in E.creators, p \in E.patients, d \in E.dentists,
          t \in E.times, m \in E.durs, n \in E.notes :
            CreateAppointment(c, p, d, t, m, n)
    \/ \E c \in E.callers, id \in 1..MaxAppts,
          u \in UpdatesOver(E.times, E.durs, E.statuses, E.moves, E.renotes) :
            UpdateAppointment(c, id, u)
    \/ \E c \in E.callers, id \in 1..MaxAppts, s \in E.statuses, n \in E.notes :
            UpdateAppointmentStatus(c, id, s, n)
    \/ \E c \in E.callers, id \in 1..MaxAppts, r \in E.reasons :
            CancelAppointment(c, id, r)

Next == Calls(SchedEnv)

Spec == Init /\ [][Next]_vars

\* One slot of one dentist; notes and cancellation reasons that are absent,
\* empty, plain, and with whitespace at their ends
NotesEnv ==
    [creators |-> {"recep1"},
     callers  |-> {"recep1"},
     patients |-> {"pat1"},
     dentists |-> {"dent1"},
     times    |-> {At(0, 10, 0)},
     durs     |-> {30},
     statuses |-> {CONFIRMED, IN_PROGRESS},
     moves    |-> {},
     notes    |-> {None, Some(<<>>), Some(<<"a">>), Some(<<" ", "a">>)},
     renotes  |-> {Some(<<"a", " ">>)},
     reasons  |-> {None, Some(<<>>), Some(<<"r">>), Some(<<"r", " ">>), Some(<<" ">>)}]

NextNotes == Calls(NotesEnv)

SpecNotes == Init /\ [][NextNotes]_vars

\* Two workers serving creates and reschedulings of one dentist
InitConc ==
    /\ appts = <<>>
    /\ reminders = {}
    /\ now = At(0, 0, 0) - 2 * MinutesPerDay
    /\ last = "none"
    /\ req = [w \in Workers |-> Idle]
    /\ probe = [fn |-> "none", arg |-> <<0, 0, 0>>, ret |-> FALSE]

NextConc ==
    \/ \E w \in Workers, t \in SchedEnv.times, m \in SchedEnv.durs :
            CreateCheck(w, "recep1", "pat1", "dent1", t, m, None)
    \/ \E w \in Workers : CreateInsert(w)
    \/ \E w \in Workers, id \in 1..MaxAppts,
          u \in UpdatesOver(SchedEnv.times, SchedEnv.durs, {}, {}, {}) :
            UpdateCheck(w, "recep1", id, u)
    \/ \E w \in Workers : UpdateWrite(w)

SpecConc == InitConc /\ [][NextConc]_vars

\* Monday 09:45 and 10:00 for 30 minutes, and availability requests
\* for the whole day, for a window that starts at 10:00 and for one that the
\* slot duration does not divide
SlotEnv ==
    [creators |-> {"recep1"},
     callers  |-> {"recep1"},
     patients |-> {"pat1"},
     dentists |-> {"dent1"},
     times    |-> {At(0, 9, 45), At(0, 10, 0)},
     durs     |-> {30},
     statuses |-> {NO_SHOW},
     moves    |-> {},
     notes    |-> {None},
     renotes  |-> {},
     reasons  |-> {None}]

SlotWindows == {<<<<8, 0>>, <<18, 0>>>>, <<<<10, 0>>, <<11, 0>>>>, <<<<9, 30>>, <<11, 15>>>>}

SlotDurations == {30, 45}

NextSlots ==
    \/ Calls(SlotEnv)
    \/ \E w \in SlotWindows, d \in SlotDurations :
            CheckAvailabilityCall("dent1", 0, w[1], w[2], d)

SpecSlots == Init /\ [][NextSlots]_vars

\* Appointments on Monday 10:00, Monday 12:00 and Wednesday 09:00, booked
\* and moved while the clock stands 1, 2, 3, 24 or 48 hours before them
ReminderTimes == {At(0, 10, 0), At(0, 12, 0), At(2, 9, 0)}

Clocks == {At(0, 8, 0), At(0, 9, 0), At(1, 9, 0), At(2, 8, 0)}

InitReminders ==
    /\ appts = <<>>
    /\ reminders = {}
    /\ now \in Clocks
    /\ last = "none"
    /\ req = <<>>
    /\ probe = [fn |-> "none", arg |-> <<0, 0, 0>>, ret |-> FALSE]

NextReminders ==
    \/ \E t \in ReminderTimes :
            CreateAppointment("recep1", "pat1", "dent1", t, 30, None)
    \/ \E id \in 1..MaxAppts, u \in UpdatesOver(ReminderTimes, {}, {}, {}, {}) :
            UpdateAppointment("recep1", id, u)
    \/ Tick(Clocks)
    \/ DispatchReminder

SpecReminders == InitReminders /\ [][NextReminders]_vars

(* Business hours: every minute of a week is the argument of one           *)
(* evaluation, next to creates at the edges of the opening hours           *)
\* Appointments assigned to two dentists and to the administrator, read and
\* modified by users of every role
AccessEnv ==
    [creators |-> {"recep1"},
     callers  |-> Users,
     patients |-> {"pat1"},
     dentists |-> {"dent1", "dent2", "admin1"},
     times    |-> {At(0, 10, 0)},
     durs     |-> {30},
     statuses |-> {CONFIRMED, CANCELLED},
     moves    |-> {},
     notes    |-> {None},
     renotes  |-> {},
     reasons  |-> {None}]

NextAccess ==
    \/ Calls(AccessEnv)
    \/ \E c \in Users, id \in 1..MaxAppts : GetAppointment(c, id)

SpecAccess == Init /\ [][NextAccess]_vars

\* Creates and updates whose commit the database may refuse
NextCommit ==
    \/ \E t \in SchedEnv.times, m \in SchedEnv.durs, x \in BOOLEAN :
            CreateAppointmentCommit("recep1", "pat1", "dent1", t, m, None, x)
    \/ \E id \in 1..MaxAppts, x \in BOOLEAN,
          u \in UpdatesOver(SchedEnv.times, SchedEnv.durs, {CONFIRMED, CANCELLED}, {}, {}) :
            UpdateAppointmentCommit("recep1", id, u, x)

SpecCommit == Init /\ [][NextCommit]_vars

\* Two workers, each serving the requests for one dentist: creates and
\* reschedulings of the two dentists interleave, those of one dentist do not
WorkerDentist(w) == IF w = "w1" THEN "dent1" ELSE "dent2"

UpdateCheckOwn(w, caller, id, upd) ==
    /\ id \in 1..Len(appts)
    /\ appts[id].dentist_id = WorkerDentist(w)
    /\ UpdateCheck(w, caller, id, upd)

IndepTimes == {At(0, 10, 0), At(0, 10, 15)}

NextIndep ==
    \/ \E w \in Workers, t \in IndepTimes :
            CreateCheck(w, "recep1", "pat1", WorkerDentist(w), t, 30, None)
    \/ \E w \in Workers : CreateInsert(w)
    \/ \E w \in Workers, id \in 1..MaxAppts, u \in UpdatesOver(IndepTimes, {15}, {}, {}, {}) :
            UpdateCheckOwn(w, "recep1", id, u)
    \/ \E w \in Workers : UpdateWrite(w)

SpecIndep == InitConc /\ [][NextIndep]_vars

\* Appointments of two dentists this Monday and five weeks later, listed by
\* users of every role before and after that Monday
ListTimes == {At(0, 10, 0), At(35, 10, 0)}

ListClocks == {At(1, 9, 0)}

ListDates == {NoDate, SomeDate(0)}

NextList ==
    \/ \E d \in {"dent1", "dent2"}, t \in ListTimes :
            CreateAppointment("recep1", "pat1", d, t, 30, None)
    \/ Tick(ListClocks)
    \/ \E c \in Users, d \in {Absent, "dent1"}, s \in ListDates, e \in ListDates :
            ListAppointments(c, Absent, d, Absent, s, e)

SpecList == Init /\ [][NextList]_vars

\* Appointments of two dentists on Monday and Tuesday, some of them missed
\* or cancelled, and statistics asked for by users of every role
StatsTimes == {At(0, 10, 0), At(1, 10, 0)}

StatsClocks == {At(0, 12, 0)}

NextStats ==
    \/ \E d \in {"dent1", "dent2"}, t \in StatsTimes :
            CreateAppointment("recep1", "pat1", d, t, 30, None)
    \/ \E id \in 1..MaxAppts, s \in {NO_SHOW, CANCELLED} :
            UpdateAppointmentStatus("recep1", id, s, None)
    \/ Tick(StatsClocks)
    \/ \E c \in Users, s \in ListDates, e \in ListDates : GetAppointmentStats(c, s, e)

SpecStats == Init /\ [][NextStats]_vars

\* One stored appointment of any start, duration and status on Monday
\* morning, and the conflict query for candidates around it
QueryStarts == {At(0, 10, 0) + 5 * k : k \in 0..6}

QueryDurs == {5, 10, 15, 20}

InitQuery ==
    /\ \E t \in QueryStarts, m \in QueryDurs, s \in AppointmentStatus :
          appts = <<[NewRow("recep1", "pat1", "dent1", t, m, None) EXCEPT !.status = s]>>
    /\ reminders = {}
    /\ now = At(0, 0, 0) - 2 * MinutesPerDay
    /\ last = "none"
    /\ req = <<>>
    /\ probe = [fn |-> "none", arg |-> <<0, 0, 0>>, ret |-> FALSE]

NextQuery ==
    \E d \in {"dent1", "dent2"}, t \in QueryStarts, m \in QueryDurs : CheckConflicts(d, t, m)

SpecQuery == InitQuery /\ [][NextQuery]_vars

\* Two workers changing the status of the same appointments: confirmations,
\* no-shows and cancellations
NextStatusRace ==
    \/ \E w \in Workers, t \in IndepTimes :
            CreateCheck(w, "recep1", "pat1", "dent1", t, 30, None)
    \/ \E w \in Workers : CreateInsert(w)
    \/ \E w \in Workers, id \in 1..MaxAppts, s \in {CONFIRMED, NO_SHOW} :
            StatusCheck(w, "recep1", id, s, None)
    \/ \E w \in Workers : StatusWrite(w)
    \/ \E w \in Workers, id \in 1..MaxAppts : CancelCheck(w, "recep1", id, None)
    \/ \E w \in Workers : CancelWrite(w)

SpecStatusRace == InitConc /\ [][NextStatusRace]_vars

\* Availability requests at the edges: an empty window, one that ends before
\* it starts, windows shorter than a slot, and slots of a single minute
EdgeWindows ==
    {<<<<10, 0>>, <<10, 0>>>>, <<<<11, 0>>, <<10, 0>>>>, <<<<10, 0>>, <<10, 3>>>>,
     <<<<10, 0>>, <<10, 20>>>>, <<<<9, 45>>, <<10, 45>>>>}

EdgeDurations == {1, 15, 30}

NextSlotEdges ==
    \/ Calls(SlotEnv)
    \/ \E w \in EdgeWindows, d \in EdgeDurations :
            CheckAvailabilityCall("dent1", 0, w[1], w[2], d)

SpecSlotEdges == Init /\ [][NextSlotEdges]_vars

InitHours ==
    /\ appts = <<>>
    /\ reminders = {}
    /\ now = At(0, 0, 0) - 2 * MinutesPerDay
    /\ last = "none"
    /\ req = <<>>
    /\ probe \in {[fn |-> "arg", arg |-> <<d, h, m>>, ret |-> FALSE] :
                    d \in 0..6, h \in 0..23, m \in 0..59}

NextHours ==
    \/ CheckBusinessHours
    \/ \E t \in {At(0, 7, 59), At(0, 17, 45), At(0, 18, 0)}, m \in {30, 480} :
            CreateAppointment("recep1", "pat1", "dent1", t, m, None)

SpecHours == InitHours /\ [][NextHours]_vars

----------------------------------------------------------------------------
(* What the claims speak of *)

Ids == 1..Len(appts)

\* the half-open rule: [start_a, end_a) and [start_b, end_b) overlap
HalfOpenOverlap(start_a, end_a, start_b, end_b) == start_a < end_b /\ start_b < end_a

Overlaps(a, b) ==
    HalfOpenOverlap(a.scheduled_time, EndTime(a), b.scheduled_time, EndTime(b))

IsActive(a) == a.status \in {SCHEDULED, CONFIRMED, IN_PROGRESS}

IsTerminal(a) == a.status \in {COMPLETED, CANCELLED, NO_SHOW}

\* the transition table of the specification
TableTargets(s) ==
    IF s = SCHEDULED THEN {CONFIRMED, CANCELLED, NO_SHOW}
    ELSE IF s = CONFIRMED THEN {IN_PROGRESS, CANCELLED, NO_SHOW}
    ELSE IF s = IN_PROGRESS THEN {COMPLETED}
    ELSE {}

\* administrator or front desk, or the assigned practitioner
Authorized(a, user) ==
    Role(user) \in {ADMIN, RECEPTIONIST} \/ (Role(user) = DENTIST /\ user = a.dentist_id)

\* the values the claims are evaluated on, beyond those the calls of a run use
ProbeTimes == {At(0, 9, 45), At(0, 10, 0), At(0, 10, 15), At(0, 10, 30)}

ProbeDurs == {15, 30, 45}

ProbeTexts == {None, Some(<<>>), Some(<<"a">>)}

SetTime(t) == [Unset EXCEPT !.fields = {"scheduled_time"}, !.scheduled_time = t]

SetDuration(d) == [Unset EXCEPT !.fields = {"duration_minutes"}, !.duration_minutes = d]

SetInterval(t, d) ==
    [Unset EXCEPT !.fields = {"scheduled_time", "duration_minutes"},
                  !.scheduled_time = t, !.duration_minutes = d]

SetStatus(s) == [Unset EXCEPT !.fields = {"status"}, !.status = s]

\* the requests that change the time and/or the duration of a row
Reschedules ==
    {SetTime(t) : t \in ProbeTimes} \cup {SetDuration(d) : d \in ProbeDurs}
    \cup {SetInterval(x[1], x[2]) : x \in ProbeTimes \X ProbeDurs}

----------------------------------------------------------------------------
(* C1.  No-overlap invariant: after any sequence of create, update,        *)
(* updateStatus and cancel calls made one at a time, two distinct stored   *)
(* appointments of the same practitioner whose status is SCHEDULED,        *)
(* CONFIRMED or IN_PROGRESS never have overlapping intervals               *)
(* [scheduled_time, scheduled_time + duration).                            *)
C1_NoOverlap ==
    \A i \in Ids, j \in Ids :
        (/\ i # j
         /\ appts[i].dentist_id = appts[j].dentist_id
         /\ IsActive(appts[i])
         /\ IsActive(appts[j]))
        => ~Overlaps(appts[i], appts[j])

\* two active appointments of one practitioner stand back to back after an
\* update returned
C1_Witness ==
    /\ last = "update"
    /\ \E i \in Ids, j \in Ids :
        /\ i # j
        /\ appts[i].dentist_id = appts[j].dentist_id
        /\ IsActive(appts[i])
        /\ IsActive(appts[j])
        /\ EndTime(appts[i]) = appts[j].scheduled_time

(* C2.  Create and update are serialized per practitioner: when creates    *)
(* and time-changing updates for one practitioner run concurrently with    *)
(* their conflict checks and writes interleaved, each check and its write  *)
(* act as one unit, so no stored active appointment is in conflict with    *)
(* another one of its practitioner in any reachable state.                 *)
C2_SerializedPerPractitioner ==
    \A id \in Ids :
        IsActive(appts[id])
        => Conflicts(appts, appts[id].dentist_id, appts[id].scheduled_time,
                     appts[id].duration_minutes, id) = {}

C4_OnlyTableTransitions ==
    [][\A id \in Ids :
          appts'[id].status # appts[id].status
          => appts'[id].status \in TableTargets(appts[id].status)]_vars

(* C5.  Terminal states are absorbing: once an appointment is COMPLETED,   *)
(* CANCELLED or NO_SHOW, no update, updateStatus or cancel changes its     *)
(* status.                                                                 *)
C5_TerminalAbsorbing ==
    [][\A id \in Ids :
          IsTerminal(appts[id]) => appts'[id].status = appts[id].status]_vars

\* an update returned while an appointment is terminal, and every status
\* change requested for that appointment through update is refused
C5_Witness ==
    /\ last = "update"
    /\ \E id \in Ids :
        /\ IsTerminal(appts[id])
        /\ \A s \in AppointmentStatus \ {appts[id].status} :
            UpdateCall(appts, "recep1", id, SetStatus(s)).out.res = "ValidationError"

ProbeReasons ==
    {None, Some(<<>>), Some(<<"r">>), Some(<<"r", " ">>), Some(<<" ">>),
     Some(<<" ", "r">>)}

Separators == {<<>>, <<" ">>, <<"\n">>}

NotesAfterCancel(id, caller, reason) ==
    CancelCall(appts, caller, id, reason).tbl[id].notes

\* C7 as worded: the stored notes are the prior notes as they were, then the
\* marker, then the reason
C7_NotesAppended ==
    \A id \in Ids, caller \in Users, reason \in ProbeReasons :
        CancelCall(appts, caller, id, reason).out = Ok
        => IF Truthy(reason)
           THEN \E s1 \in Separators, s2 \in Separators :
                    NotesAfterCancel(id, caller, reason)
                        = Some(OrEmpty(appts[id].notes) \o s1 \o CancellationMarker
                               \o s2 \o reason.val)
           ELSE NotesAfterCancel(id, caller, reason) = appts[id].notes

\* C7 with the trimming: the prior notes and a line break without their leading
\* whitespace, the marker, and a space and the reason without their trailing
\* whitespace
C7_NotesAppendedTrimmed ==
    \A id \in Ids, caller \in Users, reason \in ProbeReasons :
        CancelCall(appts, caller, id, reason).out = Ok
        => IF Truthy(reason)
           THEN NotesAfterCancel(id, caller, reason)
                    = Some(LStrip(OrEmpty(appts[id].notes) \o <<"\n">>)
                           \o CancellationMarker
                           \o RStrip(<<" ">> \o reason.val))
           ELSE NotesAfterCancel(id, caller, reason) = appts[id].notes

\* cancel returned, and an appointment created with the notes "a" is stored
\* as cancelled with "a", a line break, the marker, a space and the reason "r"
C7_Witness ==
    /\ last = "cancel"
    /\ \E id \in Ids :
        /\ appts[id].status = CANCELLED
        /\ appts[id].notes = Some(<<"a", "\n">> \o CancellationMarker \o <<" ", "r">>)

(* C8.  Terminal-status appointments never conflict: a create, or an       *)
(* update that changes the time or the duration, whose interval overlaps   *)
(* only CANCELLED, COMPLETED or NO_SHOW appointments of that practitioner  *)
(* is not rejected with a conflict error.                                  *)
C8_TerminalNeverConflicts ==
    /\ \A d \in Users, t \in ProbeTimes, m \in ProbeDurs :
        (\A i \in Ids :
            (appts[i].dentist_id = d
             /\ HalfOpenOverlap(t, t + m, appts[i].scheduled_time, EndTime(appts[i])))
            => IsTerminal(appts[i]))
        => CreateCall(appts, reminders, now, "recep1", "pat1", d, t, m, None).out.res
               # "AppointmentConflictError"
    /\ \A id \in Ids, u \in Reschedules :
        (\A i \in Ids \ {id} :
            (appts[i].dentist_id = appts[id].dentist_id
             /\ HalfOpenOverlap(NewScheduledTime(appts[id], u),
                                NewScheduledTime(appts[id], u) + NewDuration(appts[id], u),
                                appts[i].scheduled_time, EndTime(appts[i])))
            => IsTerminal(appts[i]))
        => UpdateCall(appts, "recep1", id, u).out.res # "AppointmentConflictError"

\* create returned, and the row it stored overlaps a terminal appointment
\* of the same practitioner
C8_Witness ==
    /\ last = "create"
    /\ \E i \in Ids :
        /\ i # Len(appts)
        /\ IsTerminal(appts[i])
        /\ IsActive(appts[Len(appts)])
        /\ appts[i].dentist_id = appts[Len(appts)].dentist_id
        /\ Overlaps(appts[i], appts[Len(appts)])

(* C9.  Self-exclusion on update: an update that sets a non-terminal       *)
(* appointment's time and/or duration to an interval overlapping its own   *)
(* current interval (the same one, or a part of it) is never rejected as a *)
(* conflict when no other active appointment of that practitioner overlaps *)
(* the new interval.                                                       *)
C9_SelfExclusion ==
    \A id \in Ids, u \in Reschedules :
        LET t == NewScheduledTime(appts[id], u)
            e == NewScheduledTime(appts[id], u) + NewDuration(appts[id], u)
        IN  (/\ ~IsTerminal(appts[id])
             /\ HalfOpenOverlap(t, e, appts[id].scheduled_time, EndTime(appts[id]))
             /\ \A i \in Ids \ {id} :
                    (appts[i].dentist_id = appts[id].dentist_id /\ IsActive(appts[i]))
                    => ~HalfOpenOverlap(t, e, appts[i].scheduled_time, EndTime(appts[i])))
            => UpdateCall(appts, "recep1", id, u).out.res # "AppointmentConflictError"

\* an update returned; an active appointment holds 10:00-10:30, and the
\* updates of it to the same interval and to its part 10:15-10:30 return
C9_Witness ==
    /\ last = "update"
    /\ \E id \in Ids :
        /\ IsActive(appts[id])
        /\ appts[id].scheduled_time = At(0, 10, 0)
        /\ appts[id].duration_minutes = 30
        /\ UpdateCall(appts, "recep1", id, SetInterval(At(0, 10, 0), 30)).out = Ok
        /\ UpdateCall(appts, "recep1", id, SetInterval(At(0, 10, 15), 15)).out = Ok

(* C10.  isWithinBusinessHours(t) depends only on t's day of week and hour *)
(* and is: false on Sunday; 8 <= hour < 13 on Saturday; 8 <= hour < 18 on  *)
(* Monday to Friday.  So weekday 07:59 and 18:00 are outside, 08:00 and    *)
(* 17:59 inside, Saturday 12:59 inside and 13:00 outside, and a weekday    *)
(* 17:45 start is accepted by create for any duration, though the          *)
(* appointment ends after 18:00.                                           *)
OpenAt(day, hour) ==
    IF day = 6 THEN FALSE
    ELSE IF day = 5 THEN 8 <= hour /\ hour < 13
    ELSE 8 <= hour /\ hour < 18

AcceptedDurations == {m \in 5..480 : m % 5 = 0}

C10_BusinessHours ==
    /\ probe.fn = "ret" => probe.ret = OpenAt(probe.arg[1], probe.arg[2])
    /\ \A d \in 0..4 :
        /\ ~IsWithinBusinessHours(At(d, 7, 59))
        /\ ~IsWithinBusinessHours(At(d, 18, 0))
        /\ IsWithinBusinessHours(At(d, 8, 0))
        /\ IsWithinBusinessHours(At(d, 17, 59))
    /\ IsWithinBusinessHours(At(5, 12, 59))
    /\ ~IsWithinBusinessHours(At(5, 13, 0))
    /\ \A m \in AcceptedDurations :
        (\A i \in Ids :
            (appts[i].dentist_id = "dent1" /\ IsActive(appts[i]))
            => ~HalfOpenOverlap(At(0, 17, 45), At(0, 17, 45) + m,
                                appts[i].scheduled_time, EndTime(appts[i])))
        => LET k == CreateCall(appts, reminders, now, "recep1", "pat1", "dent1",
                               At(0, 17, 45), m, None)
           IN  /\ k.out = Ok
               /\ k.tbl[Len(k.tbl)].scheduled_time = At(0, 17, 45)
               /\ k.tbl[Len(k.tbl)].duration_minutes = m

\* Monday 17:45 was found inside the opening hours, and create stored an
\* appointment that starts then and ends after 18:00
C10_Witness ==
    /\ probe = [fn |-> "ret", arg |-> <<0, 17, 45>>, ret |-> TRUE]
    /\ last = "create"
    /\ \E id \in Ids :
        /\ appts[id].scheduled_time = At(0, 17, 45)
        /\ EndTime(appts[id]) > At(0, 18, 0)

(* C11.  Slot exclusion: for every practitioner, date, work window and     *)
(* slot duration, a slot returned by computeAvailability is unavailable    *)
(* iff an appointment of that practitioner with status SCHEDULED,          *)
(* CONFIRMED or IN_PROGRESS overlaps [slot.start, slot.end) under the      *)
(* half-open rule, and available otherwise.                                *)
C11_SlotExclusion ==
    \A w \in SlotWindows, d \in SlotDurations :
        LET r == CheckAvailability(appts, "dent1", 0, w[1], w[2], d)
        IN  \A k \in 1..Len(r) :
                r[k].available
                <=> ~\E i \in Ids :
                        /\ appts[i].dentist_id = "dent1"
                        /\ IsActive(appts[i])
                        /\ HalfOpenOverlap(r[k].start_time, r[k].end_time,
                                           appts[i].scheduled_time, EndTime(appts[i]))

(* C12.  Slot coverage: computeAvailability(workStart, workEnd, d) returns *)
(* exactly floor((workEnd - workStart) / d) slots in ascending order; the  *)
(* first starts at workStart, each has length d and starts where the       *)
(* previous one ends, none ends after workEnd, a final partial interval is *)
(* dropped; with no existing appointments all are available, so 08:00 to   *)
(* 18:00 with 30-minute slots yields exactly 20 available slots.           *)
CoversWindow(r, work_start, work_end, d) ==
    /\ Len(r) = (work_end - work_start) \div d
    /\ \A k \in 1..Len(r) :
        /\ r[k].start_time = work_start + (k - 1) * d
        /\ r[k].end_time = r[k].start_time + d
        /\ r[k].end_time <= work_end

C12_SlotCoverage ==
    /\ \A w \in SlotWindows, d \in {15, 30, 45, 120} :
        LET r == CheckAvailability(appts, "dent1", 0, w[1], w[2], d)
        IN  /\ CoversWindow(r, Combine(0, w[1]), Combine(0, w[2]), d)
            /\ (\A i \in Ids : appts[i].dentist_id # "dent1")
               => \A k \in 1..Len(r) : r[k].available
    /\ (\A i \in Ids : appts[i].dentist_id # "dent1")
       => LET r == CheckAvailability(appts, "dent1", 0, <<8, 0>>, <<18, 0>>, 30)
          IN  Len(r) = 20 /\ \A k \in 1..20 : r[k].available
    /\ probe.fn = "availability"
       => CoversWindow(probe.ret, Combine(probe.arg[2], probe.arg[3]),
                       Combine(probe.arg[2], probe.arg[4]), probe.arg[5])

\* the availability of Monday 09:30 to 11:15 in slots of 30 minutes was
\* returned: three slots, the last ending at 11:00; and the whole day in
\* slots of 30 minutes has 20 slots
C12_Witness ==
    /\ probe.fn = "availability"
    /\ probe.arg = <<"dent1", 0, <<9, 30>>, <<11, 15>>, 30>>
    /\ Len(probe.ret) = 3
    /\ probe.ret[3].end_time = At(0, 11, 0)
    /\ Len(CheckAvailability(appts, "dent1", 0, <<8, 0>>, <<18, 0>>, 30)) = 20

(* C13.  Reminder planning at creation: an EMAIL reminder with             *)
(* scheduled_for = scheduled_time - 24h is created iff that instant is     *)
(* strictly after the moment of planning, and an SMS reminder with         *)
(* scheduled_for = scheduled_time - 2h iff that instant is strictly after  *)
(* it; an appointment 1h ahead gets no reminder, 3h ahead only the SMS     *)
(* one, 48h ahead both, and no reminder is created with scheduled_for at   *)
(* or before its creation moment.                                          *)
HoursAhead(h) == now + h * MinutesPerHour

\* the <<type, scheduled_for>> pairs due to an appointment at t planned at `clock`
PlannedFor(t, clock) ==
    {p \in {<<EMAIL, t - 24 * 60>>, <<SMS, t - 2 * 60>>} : p[2] > clock}

\* the reminders that a create at t adds, when it returns
PlannedBy(t) ==
    CreateCall(appts, reminders, now, "recep1", "pat1", "dent1", t, 30, None).rem
        \ reminders

CreateReturns(t) ==
    CreateCall(appts, reminders, now, "recep1", "pat1", "dent1", t, 30, None).out = Ok

C13_ReminderPlanning ==
    /\ \A t \in ReminderTimes \cup {HoursAhead(1), HoursAhead(2), HoursAhead(3),
                                    HoursAhead(24), HoursAhead(48)} :
        CreateReturns(t)
        => /\ {<<r.reminder_type, r.scheduled_for>> : r \in PlannedBy(t)}
                  = PlannedFor(t, now)
           /\ Cardinality(PlannedBy(t)) = Cardinality(PlannedFor(t, now))
           /\ \A r \in PlannedBy(t) :
                  r.appointment_id = Len(appts) + 1 /\ ~r.sent /\ r.created_at = now
    /\ CreateReturns(HoursAhead(1)) => PlannedBy(HoursAhead(1)) = {}
    /\ CreateReturns(HoursAhead(3))
       => {r.reminder_type : r \in PlannedBy(HoursAhead(3))} = {SMS}
    /\ CreateReturns(HoursAhead(48))
       => {r.reminder_type : r \in PlannedBy(HoursAhead(48))} = {EMAIL, SMS}
    /\ \A r \in reminders : r.scheduled_for > r.created_at

\* at Monday 09:00 create returned; the appointment of 12:00, 3h ahead, got
\* its SMS reminder only, the one of Wednesday 09:00, 48h ahead, got both,
\* and a create for 10:00, 1h ahead, would return
C13_Witness ==
    /\ now = At(0, 9, 0)
    /\ last = "create"
    /\ CreateReturns(HoursAhead(1))
    /\ \E i \in Ids, j \in Ids :
        /\ appts[i].scheduled_time = At(0, 12, 0)
        /\ {<<r.reminder_type, r.created_at>> : r \in {x \in reminders : x.appointment_id = i}}
               = {<<SMS, At(0, 9, 0)>>}
        /\ appts[j].scheduled_time = At(2, 9, 0)
        /\ {<<r.reminder_type, r.created_at>> : r \in {x \in reminders : x.appointment_id = j}}
               = {<<EMAIL, At(0, 9, 0)>>, <<SMS, At(0, 9, 0)>>}

(* C14.  In every reachable state, after any sequence of creates and       *)
(* updates (also updates that move scheduled_time earlier or later), every *)
(* stored reminder's scheduled_for is strictly before the scheduled_time   *)
(* of the appointment it belongs to.                                       *)
C14_ReminderBeforeAppointment ==
    \A r \in reminders :
        r.appointment_id \in Ids
        => r.scheduled_for < appts[r.appointment_id].scheduled_time

(* C15.  A reminder's sent flag is monotone and fires once: it starts      *)
(* false, mark_as_sent sets it to true, no operation sets it back, and a   *)
(* reminder with sent = true is never reported as due, so a dispatcher     *)
(* that sends exactly the due reminders sends each reminder at most once.  *)
SameReminder(r, q) ==
    r.appointment_id = q.appointment_id /\ r.reminder_type = q.reminder_type

C15_SentOnce ==
    /\ [](\A r \in reminders : r.sent => \A c \in Clocks : ~IsDue(r, c))
    /\ [][/\ \A r \in reminders : r.sent => r \in reminders'
          /\ \A r \in reminders :
                ~r.sent => \E q \in reminders' :
                              q = r \/ q = [r EXCEPT !.sent = TRUE, !.sent_at = SomeTime(now)]
          /\ \A q \in reminders' :
                (~\E r \in reminders : SameReminder(r, q)) => ~q.sent /\ ~q.sent_at.some
       ]_vars

\* a reminder was sent at an earlier instant than now; its time has come,
\* and it is not due
C15_Witness ==
    \E r \in reminders :
        /\ r.sent
        /\ r.sent_at.some
        /\ r.sent_at.val < now
        /\ r.scheduled_for <= now
        /\ ~IsDue(r, now)

(* C16.  Every appointment persisted by a successful create has status     *)
(* SCHEDULED and creator id equal to the caller's id, whatever the request *)
(* contains, and its reminders are planned only after the appointment has  *)
(* been persisted.                                                         *)
C16_CreatedScheduledByCaller ==
    /\ [](\A caller \in Users, d \in Users, t \in ReminderTimes, m \in ProbeDurs,
            n \in ProbeTexts :
            LET k == CreateCall(appts, reminders, now, caller, "pat1", d, t, m, n)
            IN  k.out = Ok
                => /\ Len(k.tbl) = Len(appts) + 1
                   /\ k.tbl[Len(k.tbl)].status = SCHEDULED
                   /\ k.tbl[Len(k.tbl)].created_by = caller
                   /\ \A r \in k.rem \ reminders : r.appointment_id = Len(k.tbl))
    /\ [](\A r \in reminders : r.appointment_id \in Ids)
    /\ [][/\ \A i \in 1..Len(appts') :
                i \notin Ids => appts'[i].status = SCHEDULED /\ appts'[i].created_by = "recep1"
          /\ \A r \in reminders' :
                (~\E q \in reminders : SameReminder(q, r))
                => r.appointment_id = Len(appts') /\ Len(appts') = Len(appts) + 1
       ]_vars

\* create returned: the last row is SCHEDULED, created by the front desk
\* caller and not by its dentist, and reminders of it are stored
C16_Witness ==
    /\ last = "create"
    /\ appts # <<>>
    /\ appts[Len(appts)].status = SCHEDULED
    /\ appts[Len(appts)].created_by = "recep1"
    /\ appts[Len(appts)].dentist_id # "recep1"
    /\ \E r \in reminders : r.appointment_id = Len(appts)

(* C17.  Fail fast, no partial writes: whenever create, update,            *)
(* updateStatus or cancel returns an error (not found, authorization,      *)
(* validation, invalid transition or conflict), the set of stored          *)
(* appointments, every field of every stored appointment, and the set of   *)
(* stored reminders are exactly what they were before the call.            *)
AnyUser == Users \cup {"nobody"}

AnyPatient == Patients \cup {"nobody"}

AnyId == 0..(MaxAppts + 1)

AnyTime == ProbeTimes \cup {At(0, 7, 45), At(6, 10, 0)}

AnyUpdate ==
    Reschedules \cup {SetStatus(s) : s \in AppointmentStatus}
    \cup {SetTime(At(6, 10, 0)), SetInterval(At(0, 18, 0), 30)}

C17_NoPartialWrites ==
    /\ \A c \in Users, p \in AnyPatient, d \in AnyUser, t \in AnyTime :
          LET k == CreateCall(appts, reminders, now, c, p, d, t, 30, None)
          IN  k.out # Ok => k.tbl = appts /\ k.rem = reminders
    /\ \A c \in Users, id \in AnyId :
          /\ \A u \in AnyUpdate :
                LET k == UpdateCall(appts, c, id, u)
                IN  k.out # Ok => k.tbl = appts
          /\ \A s \in AppointmentStatus, n \in ProbeTexts :
                LET k == StatusCall(appts, c, id, s, n)
                IN  k.out # Ok => k.tbl = appts
          /\ \A r \in ProbeTexts :
                LET k == CancelCall(appts, c, id, r)
                IN  k.out # Ok => k.tbl = appts

\* appointments and reminders are stored, and calls on them fail in each of
\* the five ways
C17_Witness ==
    /\ last # "none"
    /\ reminders # {}
    /\ CreateCall(appts, reminders, now, "recep1", "nobody", "dent1",
                  At(0, 10, 0), 30, None).out.res = "PatientNotFoundError"
    /\ \E t \in ProbeTimes :
          CreateCall(appts, reminders, now, "recep1", "pat1", "dent1",
                     t, 30, None).out.res = "AppointmentConflictError"
    /\ UpdateCall(appts, "recep1", Len(appts) + 1, SetTime(At(0, 10, 0))).out.res
          = "AppointmentNotFoundError"
    /\ \E id \in Ids :
          /\ \E u \in Reschedules :
                UpdateCall(appts, "recep1", id, u).out.res = "AppointmentConflictError"
          /\ UpdateCall(appts, "recep1", id, SetTime(At(6, 10, 0))).out.res = "ValidationError"
          /\ CancelCall(appts, "dent2", id, None).out.res = "AuthorizationError"
    /\ \E id \in Ids, s \in AppointmentStatus :
          StatusCall(appts, "recep1", id, s, None).out
             = Err("ValidationError", "transition")

(* C18.  Authorization gate, applied uniformly to get, update,             *)
(* updateStatus and cancel: the operation is permitted iff the caller's    *)
(* role is administrator or front-desk, or the caller's role is            *)
(* practitioner and the caller's id equals the appointment's practitioner  *)
(* id; every other caller gets an authorization error, which is raised     *)
(* before any business validation and leaves the appointment unchanged.    *)
Denied(k) == k.out.res = "AuthorizationError" /\ k.tbl = appts

C18_AuthorizationGate ==
    \A id \in Ids, c \in Users :
        IF Authorized(appts[id], c)
        THEN /\ GetCall(appts, c, id).out = Ok
             /\ \A u \in AnyUpdate : UpdateCall(appts, c, id, u).out.res # "AuthorizationError"
             /\ \A s \in AppointmentStatus :
                   StatusCall(appts, c, id, s, None).out.res # "AuthorizationError"
             /\ CancelCall(appts, c, id, None).out.res # "AuthorizationError"
        ELSE /\ Denied(GetCall(appts, c, id))
             /\ \A u \in AnyUpdate : Denied(UpdateCall(appts, c, id, u))
             /\ \A s \in AppointmentStatus, n \in ProbeTexts :
                   Denied(StatusCall(appts, c, id, s, n))
             /\ \A r \in ProbeTexts : Denied(CancelCall(appts, c, id, r))

\* the assigned dentist has just read an appointment that another dentist
\* is refused, also where the request is one no caller would be granted:
\* the appointment is cancelled already
C18_Witness ==
    /\ last = "get"
    /\ probe.fn = "get"
    /\ probe.ret
    /\ probe.arg[1] = "dent2"
    /\ probe.arg[2] \in Ids
    /\ appts[probe.arg[2]].dentist_id = "dent2"
    /\ appts[probe.arg[2]].status = CANCELLED
    /\ GetCall(appts, "dent1", probe.arg[2]).out.res = "AuthorizationError"
    /\ CancelCall(appts, "dent2", probe.arg[2], None).out.res = "ValidationError"
    /\ CancelCall(appts, "dent1", probe.arg[2], None).out.res = "AuthorizationError"

(* C19.  create fails with a validation error ("not a practitioner") and   *)
(* persists nothing whenever the practitioner id resolves to an existing   *)
(* user whose role is not the practitioner (dentist) role; it fails with   *)
(* PatientNotFound / PractitionerNotFound when the respective id does not  *)
(* resolve.                                                                *)
C19_PractitionerRole ==
    /\ \A c \in Users, p \in AnyPatient, d \in AnyUser, t \in AnyTime :
          LET k == CreateCall(appts, reminders, now, c, p, d, t, 30, None)
          IN  /\ p \notin Patients => k.out.res = "PatientNotFoundError"
              /\ (p \in Patients /\ d \notin Users) => k.out.res = "UserNotFoundError"
              /\ (p \in Patients /\ d \in Users /\ Role(d) # DENTIST)
                 => /\ k.out = Err("ValidationError", "not a dentist")
                    /\ k.tbl = appts
                    /\ k.rem = reminders
    /\ \A id \in Ids : Role(appts[id].dentist_id) = DENTIST

(* C20.  update re-validates only what changed: an authorized update that  *)
(* changes scheduled_time or duration is rejected with a conflict error    *)
(* iff the resulting interval overlaps another active appointment of the   *)
(* same practitioner (its own id excluded), and with a validation error    *)
(* when a new scheduled_time is outside business hours; an update that     *)
(* changes neither scheduled_time nor duration is never rejected for       *)
(* conflict or business hours; on success exactly the supplied fields      *)
(* change and the practitioner id and patient id stay the same.  Where a   *)
(* request fails validation and overlaps as well, the validation error is  *)
(* the one raised.                                                         *)
SetNotes(n) == [Unset EXCEPT !.fields = {"notes"}, !.notes = n]

UpdateRequests ==
    AnyUpdate
    \cup {SetNotes(Some(<<"a">>))}
    \cup {[Unset EXCEPT !.fields = {"status", "scheduled_time"},
                        !.status = s, !.scheduled_time = At(0, 10, 0)] :
            s \in {CONFIRMED, CANCELLED}}

\* the request carries a start time or a duration
Supplies(u) == "scheduled_time" \in u.fields \/ "duration_minutes" \in u.fields

\* the request gives the row a start time or a duration it does not have
Changes(a, u) ==
    \/ "scheduled_time" \in u.fields /\ u.scheduled_time # a.scheduled_time
    \/ "duration_minutes" \in u.fields /\ u.duration_minutes # a.duration_minutes

\* another active appointment of the row's dentist overlaps the interval
\* the request asks for
OverlapsAnother(id, u) ==
    LET t == IF "scheduled_time" \in u.fields THEN u.scheduled_time
             ELSE appts[id].scheduled_time
        m == IF "duration_minutes" \in u.fields THEN u.duration_minutes
             ELSE appts[id].duration_minutes
    IN  \E i \in Ids \ {id} :
            /\ appts[i].dentist_id = appts[id].dentist_id
            /\ IsActive(appts[i])
            /\ HalfOpenOverlap(t, t + m, appts[i].scheduled_time, EndTime(appts[i]))

OutsideHours(u) ==
    /\ "scheduled_time" \in u.fields
    /\ ~OpenAt(Weekday(u.scheduled_time), Hour(u.scheduled_time))

\* the row after a returned update: the supplied fields hold the supplied
\* values and every other field is as it was
MergedExactly(a, b, u) ==
    /\ b.scheduled_time = IF "scheduled_time" \in u.fields THEN u.scheduled_time
                          ELSE a.scheduled_time
    /\ b.duration_minutes = IF "duration_minutes" \in u.fields THEN u.duration_minutes
                            ELSE a.duration_minutes
    /\ b.status = IF "status" \in u.fields THEN u.status ELSE a.status
    /\ b.notes = IF "notes" \in u.fields THEN u.notes ELSE a.notes
    /\ b.dentist_id = a.dentist_id
    /\ b.patient_id = a.patient_id
    /\ b.created_by = a.created_by

UpdateRevalidates(Touches(_, _)) ==
    \A id \in Ids, c \in Users, u \in UpdateRequests :
        Authorized(appts[id], c) =>
            LET k == UpdateCall(appts, c, id, u)
            IN  /\ Touches(appts[id], u)
                   => /\ OutsideHours(u) => k.out.res = "ValidationError"
                      /\ k.out.res # "ValidationError"
                         => (k.out.res = "AppointmentConflictError" <=> OverlapsAnother(id, u))
                /\ ~Touches(appts[id], u)
                   => /\ k.out.res # "AppointmentConflictError"
                      /\ k.out # Err("ValidationError", "business hours")
                /\ k.out = Ok
                   => /\ Len(k.tbl) = Len(appts)
                      /\ MergedExactly(appts[id], k.tbl[id], u)
                      /\ \A i \in Ids \ {id} : k.tbl[i] = appts[i]

\* the claim as stated: what counts is whether the request gives the row a
\* different start time or duration
C20_RevalidatesWhatChanged == UpdateRevalidates(Changes)

\* the claim with "changes" read as "supplies": what counts is whether the
\* request carries a start time or a duration, equal to the stored one or not
C20_RevalidatesWhatIsSupplied ==
    UpdateRevalidates(LAMBDA a, u : Supplies(u))

\* an update returned; a cancelled appointment shares its slot with an
\* active one of the same dentist: sending it its own start time again is
\* refused as a conflict, sending it notes alone returns
C20_Witness ==
    /\ last = "update"
    /\ \E id \in Ids :
        /\ IsTerminal(appts[id])
        /\ OverlapsAnother(id, SetTime(appts[id].scheduled_time))
        /\ UpdateCall(appts, "recep1", id, SetTime(appts[id].scheduled_time)).out.res
              = "AppointmentConflictError"
        /\ UpdateCall(appts, "recep1", id, SetNotes(Some(<<"a">>))).out = Ok
        /\ UpdateCall(appts, "recep1", id, SetTime(At(6, 10, 0))).out
              = Err("ValidationError", "business hours")

(* C21.  When the commit of a create or update hits a repository-level     *)
(* integrity violation, the operation rolls back and returns an error of   *)
(* kind Conflict to the caller (never a raw storage error and never        *)
(* another error kind), and nothing is retried.                            *)
C21_IntegrityAsConflict ==
    [][(/\ probe' # probe
        /\ probe'.fn \in {"create", "update"}
        /\ probe'.ret.msg = "Database integrity error")
       => /\ ErrorCode(probe'.ret.res) = "conflict"
          /\ appts' = appts
          /\ reminders' = reminders]_vars

(* C22.  Operations on different practitioners are independent: a create   *)
(* or time-changing update for practitioner A is never rejected with a     *)
(* conflict because of any appointment assigned to practitioner B (even    *)
(* for the same patient and the same interval), and the accept/reject      *)
(* outcome of every operation on A is the same under every interleaving    *)
(* with operations on B.                                                   *)
Dentists == {"dent1", "dent2"}

\* the appointments of dentist d, in the order stored
RowsOf(d) == SelectSeq(appts, LAMBDA a : a.dentist_id = d)

\* the place of appointment id among those of its dentist
Rank(id) == Cardinality({j \in 1..id : appts[j].dentist_id = appts[id].dentist_id})

\* the request a worker has checked and not yet committed is for dentist d
Pending(w, d) ==
    \/ req[w].pc = "insert" /\ req[w].row.dentist_id = d
    \/ req[w].pc = "write" /\ appts[req[w].id].dentist_id = d

C22_PractitionersIndependent ==
    \* the outcome is that of the same call on the dentist's appointments alone
    /\ [](\A d \in Dentists, t \in ProbeTimes, m \in ProbeDurs :
            CreateCall(appts, reminders, now, "recep1", "pat1", d, t, m, None).out
              = CreateCall(RowsOf(d), reminders, now, "recep1", "pat1", d, t, m, None).out)
    /\ [](\A id \in Ids, u \in Reschedules :
            UpdateCall(appts, "recep1", id, u).out
              = UpdateCall(RowsOf(appts[id].dentist_id), "recep1", Rank(id), u).out)
    \* a request that passed the check is still free of conflicts whatever the
    \* other worker has committed since
    /\ [](\A w \in Workers :
            /\ req[w].pc = "insert"
               => Conflicts(appts, req[w].row.dentist_id, req[w].row.scheduled_time,
                            req[w].row.duration_minutes, 0) = {}
            /\ req[w].pc = "write"
               => UpdateCall(appts, "recep1", req[w].id, req[w].upd).out = Ok)
    \* a step changes the appointments of a dentist only where the request
    \* committed is that dentist's
    /\ [][\A d \in Dentists :
            RowsOf(d)' # RowsOf(d) => \E w \in Workers : Pending(w, d) /\ req'[w] = Idle]_vars

\* both dentists hold an appointment of the same patient over the same
\* interval, and a request for one of them is in flight
C22_Witness ==
    /\ \E i \in Ids, j \in Ids :
          /\ appts[i].dentist_id = "dent1"
          /\ appts[j].dentist_id = "dent2"
          /\ appts[i].patient_id = appts[j].patient_id
          /\ appts[i].scheduled_time = appts[j].scheduled_time
          /\ appts[i].duration_minutes = appts[j].duration_minutes
          /\ IsActive(appts[i]) /\ IsActive(appts[j])
    /\ \E w \in Workers : req[w].pc = "write"
    /\ last = "update"

(* C23.  Cancellation is a status transition, not a delete: no sequence of *)
(* create, update, updateStatus and cancel ever removes an appointment     *)
(* record, and a successful cancel changes only the appointment's status,  *)
(* notes and updated_at, leaving its id, patient, practitioner,            *)
(* scheduled_time, duration and its reminder records unchanged.            *)
SameButStatusAndNotes(a, b) == b = [a EXCEPT !.status = b.status, !.notes = b.notes]

C23_CancelKeepsRecord ==
    /\ [](\A id \in Ids, c \in Users, r \in ProbeTexts :
            LET k == CancelCall(appts, c, id, r)
            IN  k.out = Ok
                => /\ Len(k.tbl) = Len(appts)
                   /\ SameButStatusAndNotes(appts[id], k.tbl[id])
                   /\ k.tbl[id].status = CANCELLED
                   /\ \A i \in Ids \ {id} : k.tbl[i] = appts[i])
    /\ [][/\ Len(appts') >= Len(appts)
          /\ \A id \in Ids :
                /\ appts'[id].patient_id = appts[id].patient_id
                /\ appts'[id].dentist_id = appts[id].dentist_id
                /\ appts'[id].created_by = appts[id].created_by
          /\ last' = "cancel" /\ appts' # appts
             => /\ reminders' = reminders
                /\ \E id \in Ids :
                      /\ SameButStatusAndNotes(appts[id], appts'[id])
                      /\ \A i \in Ids \ {id} : appts'[i] = appts[i]
       ]_vars

\* cancel returned; the cancelled appointment is stored with its time and
\* duration, and reminders of it are stored
C23_Witness ==
    /\ last = "cancel"
    /\ \E id \in Ids :
        /\ appts[id].status = CANCELLED
        /\ appts[id].scheduled_time \in SchedEnv.times
        /\ appts[id].duration_minutes \in SchedEnv.durs
        /\ Cardinality({r \in reminders : r.appointment_id = id}) = Cardinality({EMAIL, SMS})

(* C24.  Role-scoped listing: list called by a practitioner returns only   *)
(* appointments whose practitioner id is the caller's id, whatever         *)
(* practitioner filter was requested; list called by an administrator or   *)
(* front-desk caller returns all stored appointments matching the supplied *)
(* filters (none are hidden when no filter is supplied).                   *)

\* the stored appointments that match the filters given, an absent filter
\* matching every appointment
Matching(patient_id, dentist_id, status, first_day, last_day) ==
    {i \in Ids :
        /\ patient_id \in {Absent, appts[i].patient_id}
        /\ dentist_id \in {Absent, appts[i].dentist_id}
        /\ status \in {Absent, appts[i].status}
        /\ first_day.some => DateOf(appts[i].scheduled_time) >= first_day.val
        /\ last_day.some => DateOf(appts[i].scheduled_time) <= last_day.val}

\* a list step: `probe` takes the request q = <<caller, patient, dentist,
\* status, start date, end date>> and the appointments returned
ListStep == probe' # probe /\ probe'.fn = "list"

\* the claim as stated: the administrator and the front desk get everything
\* that matches the filters they supplied
SuppliedFilters(q) ==
    IF Role(q[1]) = DENTIST
    THEN Matching(q[2], q[1], q[4], q[5], q[6])
    ELSE Matching(q[2], q[3], q[4], q[5], q[6])

FrontDeskWindow(q) ==
    IF Role(q[1]) = RECEPTIONIST /\ q[2] = Absent /\ q[3] = Absent
    THEN LET first == IF q[5].some THEN q[5].val ELSE DateOf(now)
             final == IF q[6].some THEN q[6].val ELSE first + 30
         IN  Matching(q[2], q[3], q[4], SomeDate(first), SomeDate(final))
    ELSE SuppliedFilters(q)

Count(S, P(_)) == Cardinality({i \in S : P(appts[i])})

\* the aggregates over the stored appointments S
Aggregates(S) ==
    LET completed == Count(S, LAMBDA a : a.status = COMPLETED)
        missed    == Count(S, LAMBDA a : a.status = NO_SHOW)
    IN  [total_appointments |-> Cardinality(S),
         by_status |-> [s \in {appts[i].status : i \in S} |->
                           Count(S, LAMBDA a : a.status = s)],
         upcoming_count |-> Count(S, LAMBDA a : a.scheduled_time > now /\ IsActive(a)),
         completion_rate |-> IF completed + missed = 0 THEN 0
                             ELSE (2 * 10000 * completed + completed + missed)
                                     \div (2 * (completed + missed)),
         no_show_rate |-> IF completed + missed = 0 THEN 0
                          ELSE (2 * 10000 * missed + completed + missed)
                                  \div (2 * (completed + missed)),
         total_patients |-> Cardinality({appts[i].patient_id : i \in S})]

\* a statistics step: `probe` takes the request <<caller, start date, end
\* date>> and what the caller received
StatsStep == probe' # probe /\ probe'.fn = "stats"

\* the claim as stated: a dentist receives the aggregates of their own
\* appointments
C25_StatsRoleScoped ==
    [][StatsStep =>
          LET q == probe'.arg
          IN  /\ probe'.ret.out = Ok
              /\ probe'.ret.stats
                   = Aggregates(Matching(Absent,
                                         IF Role(q[1]) = DENTIST THEN q[1] ELSE Absent,
                                         Absent, q[2], q[3]))]_vars

\* statistics are for the administrator and the front desk alone: a dentist
\* is refused
C25_StatsForStaffOnly ==
    [][StatsStep =>
          LET q == probe'.arg
          IN  IF Role(q[1]) = DENTIST
              THEN probe'.ret.out.res = "AuthorizationError"
              ELSE /\ probe'.ret.out = Ok
                   /\ probe'.ret.stats = Aggregates(Matching(Absent, Absent, Absent, q[2], q[3]))
       ]_vars

\* a dentist with an appointment of their own has just been refused the
\* statistics, which the front desk is given over the appointments of both
\* dentists, one of them missed and one still to come
C25_Witness ==
    /\ probe.fn = "stats"
    /\ probe.arg[1] = "dent1"
    /\ probe.ret.out.res = "AuthorizationError"
    /\ \E i \in Ids, j \in Ids :
          /\ appts[i].dentist_id = "dent1"
          /\ appts[j].dentist_id = "dent2"
          /\ appts[i].status = NO_SHOW
    /\ LET k == StatsCall(appts, now, "recep1", NoDate, NoDate)
       IN  /\ k.out = Ok
           /\ k.stats.total_appointments = Len(appts)
           /\ k.stats.upcoming_count = Len(appts) - 1
           /\ k.stats.no_show_rate = 100 * 100

(* C26.  The conflict query's three-case condition (existing.start <=      *)
(* new.start < existing.end, OR existing.start < new.end <= existing.end,  *)
(* OR new.start <= existing.start and existing.end <= new.end) selects,    *)
(* for all positive durations, exactly the active same-practitioner        *)
(* appointments that overlap the candidate under the half-open rule        *)
(* start_a < end_b AND start_b < end_a; in particular an appointment that  *)
(* ends exactly when the candidate starts, or starts exactly when it ends, *)
(* is not a conflict.                                                      *)
OverlappingActive(d, t, m) ==
    {i \in Ids :
        /\ appts[i].dentist_id = d
        /\ IsActive(appts[i])
        /\ HalfOpenOverlap(t, t + m, appts[i].scheduled_time, EndTime(appts[i]))}

C26_QueryIsHalfOpen ==
    /\ \A d \in {"dent1", "dent2"}, t \in QueryStarts, m \in QueryDurs :
          /\ Conflicts(appts, d, t, m, 0) = OverlappingActive(d, t, m)
          /\ \A i \in Ids :
                (EndTime(appts[i]) = t \/ appts[i].scheduled_time = t + m)
                => i \notin Conflicts(appts, d, t, m, 0)
    /\ probe.fn = "conflicts"
       => probe.ret = OverlappingActive(probe.arg[1], probe.arg[2], probe.arg[3])

\* the query has just been run for a candidate that starts when an active
\* appointment of the dentist ends, and returned nothing; put one step
\* earlier or made to end one step into the appointment it returns it
C26_Witness ==
    /\ probe.fn = "conflicts"
    /\ probe.ret = {}
    /\ \E i \in Ids :
          /\ IsActive(appts[i])
          /\ appts[i].dentist_id = probe.arg[1]
          /\ EndTime(appts[i]) = probe.arg[2]
          /\ Conflicts(appts, probe.arg[1], probe.arg[2] - 5, probe.arg[3], 0) = {i}
          /\ Conflicts(appts, probe.arg[1], appts[i].scheduled_time - probe.arg[3],
                       probe.arg[3], 0) = {}
          /\ Conflicts(appts, probe.arg[1], appts[i].scheduled_time - probe.arg[3] + 5,
                       probe.arg[3], 0) = {i}

(* C27.  Concurrent status changes on one appointment: when two            *)
(* updateStatus/cancel operations on the same appointment run              *)
(* concurrently, each reading the status, validating and then writing,     *)
(* every committed status change is still a table transition from the      *)
(* status stored at the moment of the write, so a terminal status that has *)
(* been committed is never overwritten.                                    *)
C27_ConcurrentStatusChanges ==
    [][\A id \in Ids :
          /\ appts'[id].status # appts[id].status
             => appts'[id].status \in TableTargets(appts[id].status)
          /\ IsTerminal(appts[id]) => appts'[id].status = appts[id].status]_vars

(* C28.  The lifecycle always progresses and ends: under sequential        *)
(* operations an appointment never returns to a status it held before, it  *)
(* undergoes at most three status changes in its lifetime (SCHEDULED,      *)
(* CONFIRMED, IN_PROGRESS, then one terminal status), and from every       *)
(* non-terminal status some allowed operation leads to a terminal status   *)
(* (no non-terminal dead end).                                             *)

\* how far along the lifecycle a status is: an appointment is created at
\* stage one, and a status change that always moves it to a later one of
\* the four stages can happen three times at most and never leads back
Stage(s) ==
    CASE s = SCHEDULED   -> 1
      [] s = CONFIRMED   -> 2
      [] s = IN_PROGRESS -> 3
      [] OTHER           -> 4

\* the statuses one returning updateStatus or cancel gives appointment id
NextStatuses(id) ==
    {s \in AppointmentStatus : StatusCall(appts, "recep1", id, s, None).out = Ok}
    \cup {CancelCall(appts, "recep1", id, None).tbl[id].status}

C28_LifecycleProgresses ==
    /\ [][\A id \in Ids :
            appts'[id].status # appts[id].status
            => Stage(appts'[id].status) > Stage(appts[id].status)]_vars
    /\ [](\A id \in 1..Len(appts) :
            ~IsTerminal(appts[id])
            => \E s \in NextStatuses(id) : s \in {COMPLETED, CANCELLED, NO_SHOW})
    /\ [](\A id \in 1..Len(appts) : IsTerminal(appts[id]) => NextStatuses(id) = {appts[id].status})

\* updateStatus returned; one appointment has gone all the way to COMPLETED
\* and another is IN_PROGRESS with a terminal status one call away
C28_Witness ==
    /\ last = "updateStatus"
    /\ \E i \in Ids, j \in Ids :
          /\ appts[i].status = COMPLETED
          /\ appts[j].status = IN_PROGRESS
          /\ COMPLETED \in NextStatuses(j)

(* C29.  updateStatus with non-empty notes sets the appointment's notes     *)
(* field to exactly the supplied notes, discarding the prior notes          *)
(* (including any earlier "[CANCELLATION]" text), and updateStatus without  *)
(* notes leaves the notes field unchanged; it never changes                 *)
(* scheduled_time, duration, patient or practitioner.                       *)
StatusNotes == ProbeReasons \cup {Some(<<"a">>), Some(<<"\n">> \o CancellationMarker)}

NonEmpty(text) == text.some /\ Len(text.val) > 0

C29_StatusNotes ==
    /\ [](\A id \in Ids, c \in Users, s \in AppointmentStatus, n \in StatusNotes :
            LET k == StatusCall(appts, c, id, s, n)
            IN  k.out = Ok
                => /\ k.tbl[id].notes = IF NonEmpty(n) THEN n ELSE appts[id].notes
                   /\ k.tbl[id].status = s
                   /\ k.tbl[id] = [appts[id] EXCEPT !.status = k.tbl[id].status,
                                                    !.notes = k.tbl[id].notes]
                   /\ Len(k.tbl) = Len(appts)
                   /\ \A i \in Ids \ {id} : k.tbl[i] = appts[i])
    /\ [][(last' = "updateStatus" /\ appts' # appts)
          => /\ reminders' = reminders
             /\ Len(appts') = Len(appts)
             /\ \E id \in Ids :
                   /\ appts'[id] = [appts[id] EXCEPT !.status = appts'[id].status,
                                                     !.notes = appts'[id].notes]
                   /\ \A i \in Ids \ {id} : appts'[i] = appts[i]]_vars

\* updateStatus returned and left notes on an appointment that is not yet
\* terminal; the next updateStatus replaces them by the notes it is given,
\* spaces kept, and keeps them when it is given none or empty ones
C29_Witness ==
    /\ last = "updateStatus"
    /\ \E id \in Ids :
          /\ appts[id].status = CONFIRMED
          /\ NonEmpty(appts[id].notes)
          /\ StatusCall(appts, "recep1", id, IN_PROGRESS, Some(<<"r", " ">>)).tbl[id].notes
                = Some(<<"r", " ">>)
          /\ StatusCall(appts, "recep1", id, IN_PROGRESS, Some(<<>>)).tbl[id].notes
                = appts[id].notes
          /\ StatusCall(appts, "recep1", id, IN_PROGRESS, None).tbl[id]
                = [appts[id] EXCEPT !.status = IN_PROGRESS]

(* C30.  computeAvailability terminates for every work window and every    *)
(* slot duration of at least 1 minute, returns an empty list when          *)
(* workEnd <= workStart or the window is shorter than one slot, and is a   *)
(* pure read: it leaves the stored appointments and reminders unchanged.   *)

\* the minutes from the start of window w to its end, negative where it
\* ends before it starts
WindowLength(w) == Combine(0, w[2]) - Combine(0, w[1])

C30_AvailabilityTerminates ==
    \* the loop ends: the slots returned fit into the window one after another
    /\ [](\A w \in EdgeWindows, d \in EdgeDurations :
            LET slots == CheckAvailability(appts, "dent1", 0, w[1], w[2], d)
            IN  /\ Len(slots) * d <= (IF WindowLength(w) > 0 THEN WindowLength(w) ELSE 0)
                /\ (WindowLength(w) <= 0 \/ WindowLength(w) < d) => slots = <<>>
                /\ WindowLength(w) >= d => slots # <<>>)
    /\ [](probe.fn = "availability"
          => LET length == Combine(probe.arg[2], probe.arg[4])
                             - Combine(probe.arg[2], probe.arg[3])
             IN  (length <= 0 \/ length < probe.arg[5]) => probe.ret = <<>>)
    /\ [][(probe' # probe /\ probe'.fn = "availability")
          => appts' = appts /\ reminders' = reminders]_vars

\* an appointment and its reminders are stored; the last request was for a
\* window shorter than the slot and returned no slot, and a window that ends
\* before it starts returns none however short the slot
C30_Witness ==
    /\ appts # <<>>
    /\ reminders # {}
    /\ probe.fn = "availability"
    /\ probe.arg[3] = <<10, 0>>
    /\ probe.arg[4] = <<10, 20>>
    /\ probe.arg[5] > 20
    /\ probe.ret = <<>>
    /\ CheckAvailability(appts, "dent1", 0, <<11, 0>>, <<10, 0>>, 1) = <<>>
    /\ Len(CheckAvailability(appts, "dent1", 0, <<10, 0>>, <<10, 3>>, 1)) = 3

====
